---- MODULE Spec2Model ----
(***************************************************************************)
(* A model of the DeKalb County PDF miner (1975Renken/Bloodhound).         *)
(*                                                                         *)
(*   SpecFetch     get_page_with_retry of pdf_miner_fixed.py               *)
(*   SpecDownload  download_pdf of tool.py and of pdf_miner_fixed.py, over *)
(*                 a file system that outlives the process                 *)
(*   SpecExtract   extract_text_from_pdf of tool.py (with ocr_pdf), of     *)
(*                 pdf_miner_fixed.py and of manual_pdf_analyzer.py        *)
(*   SpecClassify  search_keywords_in_text of pdf_miner_fixed.py, over     *)
(*                 page texts built from a small alphabet of tokens        *)
(*   SpecLocate    extract_pdf_links of pdf_miner_fixed.py, over listing   *)
(*                 pages built from a small set of anchors                 *)
(*   SpecRun       process_committee and run of pdf_miner_fixed.py;        *)
(*                 SpecRunFair adds that a started run keeps stepping      *)
(*   SpecAbort     the same run when the process may receive SIGINT        *)
(*   SpecPolite    the requests of pdf_miner_fixed.py: a call of           *)
(*                 get_page_with_retry, or a series of download_pdf calls  *)
(*                                                                         *)
(* The fetch engine is modelled statement by statement; `trace' is the     *)
(* history of the externally visible things the function did (sleeps,      *)
(* header rotations, requests, log lines, cookie clearings, the return).   *)
(***************************************************************************)
EXTENDS Integers, Sequences, FiniteSets, TLC

(***************************************************************************)
(* Bounds of the model.                                                    *)
(***************************************************************************)
MaxAttempts == 3
MaxChunks == 2
MaxPages == 3
MaxTokens == 4
MaxLinks == 2
MaxDocs == 1

(***************************************************************************)
(* Program constants.                                                      *)
(***************************************************************************)
NumUserAgents == 4
JitterLo == 2
JitterHi == 5
Backoff403Lo == 10
Backoff403Hi == 20
BackoffErrLo == 5
BackoffErrHi == 10
HttpOk == 200
HttpForbidden == 403
HttpErrorLo == 400
HttpErrorHi == 600
DownloadJitterLo == 1
DownloadJitterHi == 3
MinChars == 50
ContextChars == 300
DefaultRetries == 3

VARIABLES
    \* ---- get_page_with_retry ----
    url,          \* the url argument
    max_retries,  \* the max_retries argument
    attempt,      \* the loop variable of `for attempt in range(max_retries)'
    fpc,          \* position inside get_page_with_retry
    userAgent,    \* index of the User-Agent in session.headers (0: the default)
    cookies,      \* session.cookies
    resp,         \* the outcome of the session.get of this attempt
    ret,          \* the value returned to the caller
    trace,        \* history of what the function did
    \* ---- download_pdf ----
    impl,         \* the source file whose methods run: "tool", "fixed" or "manual"
    files,        \* the file system under base_dir: save_path -> file
    dpc,          \* position inside download_pdf
    darg,         \* the arguments: pdf_info['url'] and save_path
    dbefore,      \* the file at save_path when the call began
    dresp,        \* the response of the session.get of this call
    dret,         \* the value download_pdf returns
    dtrace,       \* what this call did: sleeps, header rotations, requests, log lines
    prev,         \* what the last call that ended did
    \* ---- extract_text_from_pdf ----
    has_pdfplumber, \* HAS_PDFPLUMBER
    nPages,       \* the number of pages of the document
    epc,          \* position inside extract_text_from_pdf
    strategy,     \* the extraction library in use
    view,         \* what that library yields for each page of the document
    idx,          \* the page number of the enumerate loop
    exc,          \* an exception left the strategy
    text_pages,   \* the list being built and returned
    invoked,      \* the strategies invoked so far, in order
    retained,     \* the number of pages each strategy retained
    \* ---- search_keywords_in_text ----
    keywords,     \* self.keywords: the catalog, its tiers in dict order
    stext,        \* the argument text: the text of one page
    spc,          \* position inside search_keywords_in_text
    tier,         \* the index of the tier of the outer loop
    term,         \* the index of the pattern of the middle loop
    pos,          \* the token at which re.finditer resumes
    matches,      \* the list being built and returned
    first,        \* what the invocation before this one returned
    invocation,   \* the number of this invocation on the same input
    \* ---- extract_pdf_links: the loop over the links of a page ----
    lurl,         \* the argument url: the listing page
    anchors,      \* soup.find_all('a'): the <a> elements of the page, in page order
    lidx,         \* the index of the link of the loop
    pdf_links,    \* the list being built and returned
    lpc,          \* position inside the loop
    \* ---- run and process_committee ----
    rpc,          \* position inside run and process_committee
    group,        \* the number of committees the loop of run has taken
    bucket,       \* the listing page or document list in hand: "current" or "archive"
    rattempt,     \* the attempts of get_page_with_retry used for the listing request
    current_pdfs, \* the DocumentRefs of the main page
    archive_pdfs, \* the DocumentRefs of the archive page
    doc,          \* the index of the document of the loop
    rpages,       \* text_pages of the document in hand
    pg,           \* the index of the page of the loop
    results,      \* self.results
    runret,       \* the value run returns
    listing,      \* how the extract_pdf_links calls of the committee in hand ended
    attempted,    \* the download_pdf calls of the committee in hand and what they returned
    poisoned,     \* the committees both of whose listing requests failed
    abort         \* the interrupt (SIGINT) the process received, if any

\* the session (headers, cookies) is shared by every method of the miner
session == <<userAgent, cookies>>
fonly == <<url, max_retries, attempt, fpc, resp, ret, trace>>
fvars == <<fonly, session>>
donly == <<files, dpc, darg, dbefore, dresp, dret, dtrace, prev>>
dvars == <<impl, donly>>
evars == <<has_pdfplumber, nPages, epc, strategy, view, idx, exc, text_pages, invoked, retained>>
cvars == <<keywords, stext, spc, tier, term, pos, matches, first, invocation>>
\* the state of the methods modelled further down
lvars == <<lurl, anchors, lidx, pdf_links, lpc>>
rvars == <<rpc, group, bucket, rattempt, current_pdfs, archive_pdfs, doc, rpages, pg,
           results, runret, listing, attempted, poisoned>>
dframe == <<dpc, darg, dbefore, dresp, dret, dtrace, prev>>
avars == <<abort>>
ovars == <<cvars, lvars, rvars, avars>>
vars == <<fonly, session, dvars, evars, ovars>>

(***************************************************************************)
(* The server and the transport.  A session.get either raises (timeout,    *)
(* connection reset) or yields a response with a status; a response may    *)
(* carry a Set-Cookie header, which the session stores.                    *)
(***************************************************************************)
Urls == {"main_url", "archive_url"}
Statuses == {200, 204, 304, 403, 500}
TransportErrors == {"Timeout", "ConnectionError"}

Response(s, c) == [kind |-> "Response", status |-> s, setCookie |-> c, error |-> ""]
Raised(e) == [kind |-> "Exception", status |-> 0, setCookie |-> FALSE, error |-> e]
NoneValue == [kind |-> "None", status |-> 0, setCookie |-> FALSE, error |-> ""]

Outcomes ==
    {Response(s, c) : s \in Statuses, c \in BOOLEAN} \cup {Raised(e) : e \in TransportErrors}

\* requests.Response.raise_for_status raises HTTPError exactly for 400 <= status < 600
RaisesForStatus(r) == r.status >= HttpErrorLo /\ r.status < HttpErrorHi

(***************************************************************************)
(* Events of the history.                                                  *)
(***************************************************************************)
Event(e, a) == [ev |-> e, attempt |-> a, lo |-> 0, hi |-> 0, out |-> NoneValue, sent |-> {}]
SleepEvent(a, x, y) == [Event("sleep", a) EXCEPT !.lo = x, !.hi = y]
RequestEvent(a, o, jar) == [Event("request", a) EXCEPT !.out = o, !.sent = jar]

(***************************************************************************)
(* get_page_with_retry, pdf_miner_fixed.py 197-230.                        *)
(***************************************************************************)
FetchInit ==
    /\ url \in Urls
    /\ max_retries \in 0..MaxAttempts
    /\ attempt = 0
    /\ fpc = "loop"
    /\ userAgent = 0
    /\ cookies \in {{}, {"sid"}}
    /\ resp = NoneValue
    /\ ret = NoneValue
    /\ trace = <<>>

\* `for attempt in range(max_retries)': enter the body, or fall out to `return None'
LoopHead ==
    /\ fpc = "loop"
    /\ IF attempt < max_retries
         THEN /\ fpc' = "sleep"
              /\ UNCHANGED <<ret, trace>>
         ELSE /\ fpc' = "done"
              /\ ret' = NoneValue
              /\ trace' = Append(trace, Event("return", attempt))
    /\ UNCHANGED <<url, max_retries, attempt, userAgent, cookies, resp>>

\* time.sleep(random.uniform(2, 5))
Jitter_FirstOnly ==
    /\ fpc = "sleep"
    /\ trace' = IF attempt = 0
                  THEN Append(trace, SleepEvent(attempt + 1, JitterLo, JitterHi))
                  ELSE trace
    /\ fpc' = "headers"
    /\ UNCHANGED <<url, max_retries, attempt, userAgent, cookies, resp, ret>>

Jitter ==
    /\ fpc = "sleep"
    /\ trace' = Append(trace, SleepEvent(attempt + 1, JitterLo, JitterHi))
    /\ fpc' = "headers"
    /\ UNCHANGED <<url, max_retries, attempt, userAgent, cookies, resp, ret>>

\* self.update_headers(): random.choice(self.user_agents)
UpdateHeaders ==
    /\ fpc = "headers"
    /\ \E ua \in 1..NumUserAgents : userAgent' = ua
    /\ trace' = Append(trace, Event("headers", attempt + 1))
    /\ fpc' = "get"
    /\ UNCHANGED <<url, max_retries, attempt, cookies, resp, ret>>

\* response = self.session.get(url, timeout=30, allow_redirects=True)
SessionGet ==
    /\ fpc = "get"
    /\ \E o \in Outcomes :
         /\ resp' = o
         /\ trace' = Append(trace, RequestEvent(attempt + 1, o, cookies))
         /\ cookies' = IF o.setCookie THEN cookies \cup {"sid"} ELSE cookies
         /\ fpc' = IF o.kind = "Exception" THEN "except" ELSE "status"
    /\ UNCHANGED <<url, max_retries, attempt, userAgent, ret>>

\* if response.status_code == 200: return response
Status200_NoReturn ==
    /\ fpc = "status"
    /\ resp.status = HttpOk
    /\ attempt' = attempt + 1
    /\ fpc' = "loop"
    /\ UNCHANGED <<url, max_retries, userAgent, cookies, resp, ret, trace>>

Status200 ==
    /\ fpc = "status"
    /\ resp.status = HttpOk
    /\ ret' = resp
    /\ fpc' = "done"
    /\ trace' = Append(trace, Event("return", attempt + 1))
    /\ UNCHANGED <<url, max_retries, attempt, userAgent, cookies, resp>>

\* elif response.status_code == 403: warn; backoff and clear cookies if an
\* attempt remains; continue
Status403_NoClear ==
    /\ fpc = "status"
    /\ resp.status = HttpForbidden
    /\ IF attempt < max_retries - 1
         THEN /\ trace' = trace \o << Event("warning", attempt + 1),
                                      SleepEvent(attempt + 1, Backoff403Lo, Backoff403Hi) >>
              /\ cookies' = cookies
         ELSE /\ trace' = Append(trace, Event("warning", attempt + 1))
              /\ cookies' = cookies
    /\ attempt' = attempt + 1
    /\ fpc' = "loop"
    /\ UNCHANGED <<url, max_retries, userAgent, resp, ret>>

Status403 ==
    /\ fpc = "status"
    /\ resp.status = HttpForbidden
    /\ IF attempt < max_retries - 1
         THEN /\ trace' = trace \o << Event("warning", attempt + 1),
                                      SleepEvent(attempt + 1, Backoff403Lo, Backoff403Hi),
                                      Event("clear", attempt + 1) >>
              /\ cookies' = {}
         ELSE /\ trace' = Append(trace, Event("warning", attempt + 1))
              /\ cookies' = cookies
    /\ attempt' = attempt + 1
    /\ fpc' = "loop"
    /\ UNCHANGED <<url, max_retries, userAgent, resp, ret>>

\* else: response.raise_for_status() -- raises into the except clause for a
\* 4xx/5xx status, and otherwise returns, which ends the loop body
StatusOther ==
    /\ fpc = "status"
    /\ resp.status # HttpOk
    /\ resp.status # HttpForbidden
    /\ IF RaisesForStatus(resp)
         THEN /\ fpc' = "except"
              /\ UNCHANGED attempt
         ELSE /\ fpc' = "loop"
              /\ attempt' = attempt + 1
    /\ UNCHANGED <<url, max_retries, userAgent, cookies, resp, ret, trace>>

\* except Exception as e: log the error; short backoff if an attempt remains
Except_Break ==
    /\ fpc = "except"
    /\ trace' = Append(trace, Event("error", attempt + 1))
    /\ ret' = NoneValue
    /\ fpc' = "done"
    /\ UNCHANGED <<url, max_retries, attempt, userAgent, cookies, resp>>

Except ==
    /\ fpc = "except"
    /\ IF attempt < max_retries - 1
         THEN trace' = trace \o << Event("error", attempt + 1),
                                   SleepEvent(attempt + 1, BackoffErrLo, BackoffErrHi) >>
         ELSE trace' = Append(trace, Event("error", attempt + 1))
    /\ attempt' = attempt + 1
    /\ fpc' = "loop"
    /\ UNCHANGED <<url, max_retries, userAgent, cookies, resp, ret>>

FetchNext ==
    \/ LoopHead /\ UNCHANGED <<dvars, evars, ovars>>
    \/ Jitter /\ UNCHANGED <<dvars, evars, ovars>>
    \/ UpdateHeaders /\ UNCHANGED <<dvars, evars, ovars>>
    \/ SessionGet /\ UNCHANGED <<dvars, evars, ovars>>
    \/ Status200 /\ UNCHANGED <<dvars, evars, ovars>>
    \/ Status403 /\ UNCHANGED <<dvars, evars, ovars>>
    \/ StatusOther /\ UNCHANGED <<dvars, evars, ovars>>
    \/ Except /\ UNCHANGED <<dvars, evars, ovars>>

\* no fetch is running
FetchIdle ==
    /\ url = "main_url"
    /\ max_retries = 0
    /\ attempt = 0
    /\ fpc = "idle"
    /\ resp = NoneValue
    /\ ret = NoneValue
    /\ trace = <<>>

(***************************************************************************)
(* The cache on disk.  A file is absent, or holds a sequence of chunks.    *)
(* The body of a document is a sequence of chunks that name its URL, so    *)
(* that the bytes of two documents differ.                                 *)
(***************************************************************************)
DocUrls == {"doc_a", "doc_b"}
Paths == {"current/a.pdf", "archive/a.pdf"}
Impls == {"tool", "fixed"}
DownloadStatuses == {200, 304, 403, 500}

Absent == [exists |-> FALSE, data |-> <<>>]
File(d) == [exists |-> TRUE, data |-> d]
Body(u, n) == [k \in 1..n |-> <<u, k>>]
\* what an earlier run, or the user, may have left at a path
LeftOver == {Absent, File(<<>>), File(<< <<"earlier", 1>> >>)}

NoCall == [url |-> "", path |-> ""]
NoResponse == [kind |-> "None", status |-> 0, chunks |-> 0]
DownloadOutcomes ==
    {[kind |-> "Response", status |-> s, chunks |-> n] : s \in DownloadStatuses, n \in 0..MaxChunks}
      \cup {[kind |-> "Exception", status |-> 0, chunks |-> 0]}

\* os.path.exists(save_path)
PathExists(p) == files[p].exists
NonEmpty(f) == f.exists /\ f.data # <<>>

\* what `prev' keeps of a call that ended
NoSummary ==
    [url |-> "", path |-> "", completed |-> FALSE, ret |-> FALSE, requests |-> 0,
     existed |-> FALSE]
Summary(completed, r) ==
    [url |-> darg.url, path |-> darg.path, completed |-> completed, ret |-> r,
     requests |-> Len(SelectSeq(dtrace, LAMBDA e : e = "request")),
     existed |-> dbefore.exists]

\* the locals of download_pdf when no call is in progress
NoFrame ==
    /\ darg = NoCall
    /\ dbefore = Absent
    /\ dresp = NoResponse
    /\ dret = FALSE
    /\ dtrace = <<>>

DownloadIdle ==
    /\ impl = "fixed"
    /\ files = [p \in Paths |-> Absent]
    /\ dpc = "idle"
    /\ NoFrame
    /\ prev = NoSummary

DownloadInit ==
    /\ impl \in Impls
    /\ files \in [Paths -> LeftOver]
    /\ dpc = "idle"
    /\ NoFrame
    /\ prev = NoSummary
    /\ userAgent = 0
    /\ cookies = {}

(***************************************************************************)
(* download_pdf, tool.py 200-220 and pdf_miner_fixed.py 268-294.           *)
(***************************************************************************)
\* the caller (process_committee) calls download_pdf(pdf_info, save_path)
DownloadCall ==
    /\ dpc = "idle"
    /\ \E u \in DocUrls, p \in Paths :
         /\ darg' = [url |-> u, path |-> p]
         /\ dbefore' = files[p]
    /\ dresp' = NoResponse
    /\ dret' = FALSE
    /\ dtrace' = <<>>
    /\ dpc' = "check"
    /\ UNCHANGED <<impl, files, prev, session>>

\* if os.path.exists(save_path): log; return True
CheckCache_Never ==
    /\ dpc = "check"
    /\ dpc' = IF impl = "fixed" THEN "sleep" ELSE "get"
    /\ UNCHANGED <<impl, files, darg, dbefore, dresp, dret, dtrace, prev, session>>

CheckCache ==
    /\ dpc = "check"
    /\ IF PathExists(darg.path)
         THEN /\ dtrace' = Append(dtrace, "info")
              /\ dret' = TRUE
              /\ dpc' = "done"
         ELSE /\ dpc' = IF impl = "fixed" THEN "sleep" ELSE "get"
              /\ UNCHANGED <<dret, dtrace>>
    /\ UNCHANGED <<impl, files, darg, dbefore, dresp, prev, session>>

\* pdf_miner_fixed.py only: time.sleep(random.uniform(1, 3))
DownloadJitter ==
    /\ dpc = "sleep"
    /\ dtrace' = Append(dtrace, "sleep")
    /\ dpc' = "headers"
    /\ UNCHANGED <<impl, files, darg, dbefore, dresp, dret, prev, session>>

\* pdf_miner_fixed.py only: self.update_headers()
DownloadUpdateHeaders ==
    /\ dpc = "headers"
    /\ \E ua \in 1..NumUserAgents : userAgent' = ua
    /\ dtrace' = Append(dtrace, "headers")
    /\ dpc' = "get"
    /\ UNCHANGED <<impl, files, darg, dbefore, dresp, dret, prev, cookies>>

\* response = self.session.get(pdf_info['url'], timeout=60, stream=True)
DownloadGet ==
    /\ dpc = "get"
    /\ \E o \in DownloadOutcomes :
         /\ dresp' = o
         /\ dpc' = IF o.kind = "Exception" THEN "except" ELSE "raise_for_status"
    /\ dtrace' = Append(dtrace, "request")
    /\ UNCHANGED <<impl, files, darg, dbefore, dret, prev, session>>

\* response.raise_for_status()
DownloadRaiseForStatus ==
    /\ dpc = "raise_for_status"
    /\ dpc' = IF RaisesForStatus(dresp) THEN "except" ELSE "open"
    /\ UNCHANGED <<impl, files, darg, dbefore, dresp, dret, dtrace, prev, session>>

\* with open(save_path, 'wb') as f: creates or truncates the file, or raises
\* (permission denied, missing directory)
OpenFile_ElsewherePath ==
    /\ dpc = "open"
    /\ \/ /\ \E q \in Paths \ {darg.path} : files' = [files EXCEPT ![q] = File(<<>>)]
          /\ dpc' = "write"
       \/ /\ dpc' = "except"
          /\ UNCHANGED files
    /\ UNCHANGED <<impl, darg, dbefore, dresp, dret, dtrace, prev, session>>

OpenFile ==
    /\ dpc = "open"
    /\ \/ /\ files' = [files EXCEPT ![darg.path] = File(<<>>)]
          /\ dpc' = "write"
       \/ /\ dpc' = "except"
          /\ UNCHANGED files
    /\ UNCHANGED <<impl, darg, dbefore, dresp, dret, dtrace, prev, session>>

\* for chunk in response.iter_content(chunk_size=8192): f.write(chunk)
WriteChunk ==
    /\ dpc = "write"
    /\ Len(files[darg.path].data) < dresp.chunks
    /\ files' = [files EXCEPT ![darg.path] =
                   File(Append(@.data, <<darg.url, Len(@.data) + 1>>))]
    /\ UNCHANGED <<impl, dpc, darg, dbefore, dresp, dret, dtrace, prev, session>>

\* iter_content or f.write raises (connection reset, read timeout, disk full)
\* before the body is complete: the with statement closes the file as it is
ChunkError ==
    /\ dpc = "write"
    /\ Len(files[darg.path].data) < dresp.chunks
    /\ dpc' = "except"
    /\ UNCHANGED <<impl, files, darg, dbefore, dresp, dret, dtrace, prev, session>>

\* the body is exhausted: close the file, log, return True
CloseFile ==
    /\ dpc = "write"
    /\ Len(files[darg.path].data) = dresp.chunks
    /\ dtrace' = Append(dtrace, "info")
    /\ dret' = TRUE
    /\ dpc' = "done"
    /\ UNCHANGED <<impl, files, darg, dbefore, dresp, prev, session>>

\* except Exception as e: log the error; return False
DownloadExcept ==
    /\ dpc = "except"
    /\ dtrace' = Append(dtrace, "error")
    /\ dret' = FALSE
    /\ dpc' = "done"
    /\ UNCHANGED <<impl, files, darg, dbefore, dresp, prev, session>>

\* control is back in the caller
DownloadReturn ==
    /\ dpc = "done"
    /\ prev' = Summary(TRUE, dret)
    /\ dpc' = "idle"
    /\ darg' = NoCall
    /\ dbefore' = Absent
    /\ dresp' = NoResponse
    /\ dret' = FALSE
    /\ dtrace' = <<>>
    /\ UNCHANGED <<impl, files, session>>

\* the process is killed and started again: a call in flight is cut short,
\* the session is a new one, the files stay as they are
Restart_LosesCache ==
    /\ dpc' = "idle"
    /\ prev' = IF dpc = "idle" THEN prev ELSE Summary(dpc = "done", dret)
    /\ userAgent' = 0
    /\ cookies' = {}
    /\ (dpc = "idle" => userAgent # 0)
    /\ darg' = NoCall
    /\ dbefore' = Absent
    /\ dresp' = NoResponse
    /\ dret' = FALSE
    /\ dtrace' = <<>>
    /\ files' = [p \in Paths |-> Absent]
    /\ UNCHANGED impl

Restart ==
    /\ dpc' = "idle"
    /\ prev' = IF dpc = "idle" THEN prev ELSE Summary(dpc = "done", dret)
    /\ userAgent' = 0
    /\ cookies' = {}
    /\ (dpc = "idle" => userAgent # 0)
    /\ darg' = NoCall
    /\ dbefore' = Absent
    /\ dresp' = NoResponse
    /\ dret' = FALSE
    /\ dtrace' = <<>>
    /\ UNCHANGED <<impl, files>>

DownloadNext ==
    \/ DownloadCall /\ UNCHANGED <<fonly, evars, ovars>>
    \/ CheckCache /\ UNCHANGED <<fonly, evars, ovars>>
    \/ DownloadJitter /\ UNCHANGED <<fonly, evars, ovars>>
    \/ DownloadUpdateHeaders /\ UNCHANGED <<fonly, evars, ovars>>
    \/ DownloadGet /\ UNCHANGED <<fonly, evars, ovars>>
    \/ DownloadRaiseForStatus /\ UNCHANGED <<fonly, evars, ovars>>
    \/ OpenFile /\ UNCHANGED <<fonly, evars, ovars>>
    \/ WriteChunk /\ UNCHANGED <<fonly, evars, ovars>>
    \/ ChunkError /\ UNCHANGED <<fonly, evars, ovars>>
    \/ CloseFile /\ UNCHANGED <<fonly, evars, ovars>>
    \/ DownloadExcept /\ UNCHANGED <<fonly, evars, ovars>>
    \/ DownloadReturn /\ UNCHANGED <<fonly, evars, ovars>>
    \/ Restart /\ UNCHANGED <<fonly, evars, ovars>>

(***************************************************************************)
(* Page texts.  A text is known by the lengths of its leading whitespace,  *)
(* of its core (which begins and ends with a character that is not         *)
(* whitespace, or is empty) and of its trailing whitespace: str.strip()    *)
(* keeps the core.  A page yields a text, None, or an exception.           *)
(***************************************************************************)
Strategies == <<"pdfplumber", "PyPDF2", "OCR">>
ExtractImpls == {"tool", "fixed", "manual"}

Text(l, c, t) == [kind |-> "text", lead |-> l, core |-> c, trail |-> t]
NoText == [kind |-> "None", lead |-> 0, core |-> 0, trail |-> 0]
PageRaises == [kind |-> "raise", lead |-> 0, core |-> 0, trail |-> 0]
PageOutcomes ==
    {PageRaises, NoText, Text(0, 0, 0), Text(1, MinChars, 1), Text(1, MinChars + 1, 0)}

TextLen(t) == t.lead + t.core + t.trail
Strip(t) == [t EXCEPT !.lead = 0, !.trail = 0]
\* Python truth of a str or None
Truthy(t) == t.kind = "text" /\ TextLen(t) > 0

\* if text and len(text.strip()) > 50
Retain_NoStrip(t) == Truthy(t) /\ TextLen(t) > MinChars

Retain(t) == Truthy(t) /\ TextLen(Strip(t)) > MinChars

\* if not text_pages
NoPages_Always(tp) == TRUE

NoPages(tp) == tp = <<>>

\* pdf_miner_fixed.py 309-313: after `except: pass' PyPDF2 runs `if not
\* text_pages', whether or not pdfplumber raised
FallsBack_OnError(tp, e) == NoPages(tp) \/ e
FallsBack(tp, e) == NoPages(tp)

ExtractIdle ==
    /\ has_pdfplumber = TRUE
    /\ nPages = 0
    /\ epc = "idle"
    /\ strategy = ""
    /\ view = <<>>
    /\ idx = 0
    /\ exc = FALSE
    /\ text_pages = <<>>
    /\ invoked = <<>>
    /\ retained = [s \in {} |-> 0]

\* text_pages = [] on entry; tool.py imports pdfplumber unconditionally
ExtractInit ==
    /\ impl \in ExtractImpls
    /\ has_pdfplumber \in (IF impl = "fixed" THEN BOOLEAN ELSE {TRUE})
    /\ nPages \in 0..MaxPages
    /\ epc = "start"
    /\ strategy = ""
    /\ view = <<>>
    /\ idx = 0
    /\ exc = FALSE
    /\ text_pages = <<>>
    /\ invoked = <<>>
    /\ retained = [s \in {} |-> 0]

Invoke(s) ==
    /\ strategy' = s
    /\ epc' = "open"
    /\ exc' = FALSE

Return ==
    /\ epc' = "done"
    /\ UNCHANGED <<strategy, exc>>

(***************************************************************************)
(* extract_text_from_pdf: tool.py 222-272 (with ocr_pdf),                  *)
(* pdf_miner_fixed.py 296-324, manual_pdf_analyzer.py 71-91.               *)
(***************************************************************************)
\* the first strategy: pdfplumber; PyPDF2 in manual_pdf_analyzer.py and in
\* pdf_miner_fixed.py without pdfplumber (there text_pages is empty)
ExtractStart ==
    /\ epc = "start"
    /\ IF impl = "manual" \/ (impl = "fixed" /\ ~has_pdfplumber)
         THEN Invoke("PyPDF2")
         ELSE Invoke("pdfplumber")
    /\ UNCHANGED <<impl, has_pdfplumber, nPages, view, idx, text_pages, invoked, retained>>

\* pdfplumber.open / PyPDF2.PdfReader / pdf2image.convert_from_path: raises
\* (encrypted, malformed, missing dependency) or yields the pages
OpenDocument ==
    /\ epc = "open"
    /\ invoked' = Append(invoked, strategy)
    /\ retained' = [s \in DOMAIN retained \cup {strategy} |->
                      IF s = strategy THEN 0 ELSE retained[s]]
    /\ \/ /\ exc' = TRUE
          /\ epc' = "after"
          /\ view' = <<>>
          /\ idx' = 0
       \/ /\ view' \in [1..nPages -> PageOutcomes]
          /\ idx' = 1
          /\ epc' = "page"
          /\ exc' = FALSE
    /\ UNCHANGED <<impl, has_pdfplumber, nPages, strategy, text_pages>>

\* one turn of `for i, page in enumerate(pages, 1)': extract the text of the
\* page and append (i, text) if it passes; only manual_pdf_analyzer.py
\* catches an exception here and goes on with the next page
ExtractPage ==
    /\ epc = "page"
    /\ idx <= nPages
    /\ IF view[idx] = PageRaises
         THEN /\ IF impl = "manual"
                   THEN /\ idx' = idx + 1
                        /\ UNCHANGED <<epc, exc>>
                   ELSE /\ exc' = TRUE
                        /\ epc' = "after"
                        /\ UNCHANGED idx
              /\ UNCHANGED <<text_pages, retained>>
         ELSE /\ IF Retain(view[idx])
                   THEN /\ text_pages' = Append(text_pages, <<idx, view[idx]>>)
                        /\ retained' = [retained EXCEPT ![strategy] = @ + 1]
                   ELSE UNCHANGED <<text_pages, retained>>
              /\ idx' = idx + 1
              /\ UNCHANGED <<epc, exc>>
    /\ UNCHANGED <<impl, has_pdfplumber, nPages, strategy, view, invoked>>

\* the loop over the pages ends
EndOfPages ==
    /\ epc = "page"
    /\ idx > nPages
    /\ epc' = "after"
    /\ UNCHANGED <<impl, has_pdfplumber, nPages, strategy, view, idx, exc, text_pages,
                   invoked, retained>>

\* what follows a strategy.  tool.py: an exception of pdfplumber or PyPDF2
\* reaches the outer except, which logs and returns; ocr_pdf catches its own.
\* pdf_miner_fixed.py: `except: pass' around pdfplumber, the outer except
\* around PyPDF2.  Otherwise the next strategy runs `if not text_pages'.
AfterStrategy ==
    /\ epc = "after"
    /\ CASE impl = "tool" /\ strategy = "pdfplumber" ->
              IF ~exc /\ NoPages(text_pages) THEN Invoke("PyPDF2") ELSE Return
         [] impl = "tool" /\ strategy = "PyPDF2" ->
              IF ~exc /\ NoPages(text_pages) THEN Invoke("OCR") ELSE Return
         [] impl = "fixed" /\ strategy = "pdfplumber" ->
              IF FallsBack(text_pages, exc) THEN Invoke("PyPDF2") ELSE Return
         [] OTHER -> Return
    /\ UNCHANGED <<impl, has_pdfplumber, nPages, view, idx, text_pages, invoked, retained>>

ExtractNext ==
    \/ ExtractStart /\ UNCHANGED <<fonly, session, donly, ovars>>
    \/ OpenDocument /\ UNCHANGED <<fonly, session, donly, ovars>>
    \/ ExtractPage /\ UNCHANGED <<fonly, session, donly, ovars>>
    \/ EndOfPages /\ UNCHANGED <<fonly, session, donly, ovars>>
    \/ AfterStrategy /\ UNCHANGED <<fonly, session, donly, ovars>>

SessionIdle ==
    /\ userAgent = 0
    /\ cookies = {}

DownloadIdleFiles ==
    /\ files = [p \in Paths |-> Absent]
    /\ dpc = "idle"
    /\ NoFrame
    /\ prev = NoSummary

(***************************************************************************)
(* Page texts for the keyword search.  A text is a sequence of tokens: a   *)
(* word (a run of word characters, named up to letter case, with its       *)
(* length) or a run of whitespace (with its characters).  Two words next   *)
(* to each other form one longer word, so no \b lies between them.         *)
(***************************************************************************)
Word(w, n) == [kind |-> "word", w |-> w, len |-> n]
Space(w, n) == [kind |-> "ws", w |-> w, len |-> n]

Alphabet ==
    {Word("steve", 5), Word("hamm", 4), Word("ethics", 6), Word("training", 8),
     Word("x", 3), Word("xx", ContextChars),
     Space(" ", 1), Space("\n", 1), Space("  ", 2)}

Texts == UNION {[1..n -> Alphabet] : n \in 0..MaxTokens}

\* len(text)
RECURSIVE Length(_)
Length(toks) == IF toks = <<>> THEN 0 ELSE Head(toks).len + Length(Tail(toks))

\* the offset of the first character of token k
Offset(toks, k) == Length(SubSeq(toks, 1, k - 1))

Smallest(S) == CHOOSE x \in S : \A y \in S : x <= y

(***************************************************************************)
(* The catalog, pdf_miner_fixed.py 103-160: tiers in dict order, each with *)
(* its list of regular expressions.  A pattern is a chain of words joined  *)
(* by \s+ between two \b, or two such words joined by a lazy .*? (which    *)
(* crosses newlines under re.DOTALL), or a string that does not compile.   *)
(***************************************************************************)
Words(re, ws) == [re |-> re, kind |-> "words", words |-> ws]
Gap(re, a, b) == [re |-> re, kind |-> "gap", words |-> <<a, b>>]
Invalid(re) == [re |-> re, kind |-> "invalid", words |-> <<>>]
Tier(p, ts) == [priority |-> p, terms |-> ts]

SteveHamm == Words("\\bSteve\\s+Hamm\\b", <<"steve", "hamm">>)
Hamm == Words("\\bHamm\\b", <<"hamm">>)
EthicsTraining == Words("\\bethics\\s+training\\b", <<"ethics", "training">>)
EthicsGap == Gap("\\bethics\\b.*?\\b(training|policy|violation)\\b", "ethics", "training")
Unbalanced == Invalid("\\b(retaliation")

Catalog ==
    << Tier("priority_1", <<SteveHamm, Hamm, EthicsTraining>>),
       Tier("priority_2", <<EthicsGap>>) >>

\* the same catalog with a pattern that re.compile rejects
BrokenCatalog ==
    << Tier("priority_1", <<SteveHamm, Hamm, EthicsTraining>>),
       Tier("priority_2", <<EthicsGap, Unbalanced>>) >>

HasInvalid(cat) ==
    \E i \in 1..Len(cat) : \E j \in 1..Len(cat[i].terms) : cat[i].terms[j].kind = "invalid"

(***************************************************************************)
(* re.finditer(pattern, text, re.IGNORECASE | re.DOTALL): the matches of   *)
(* the pattern from left to right, each search resuming where the match    *)
(* before it ended.                                                        *)
(***************************************************************************)
IsWord(toks, k, w) == toks[k].kind = "word" /\ toks[k].w = w
LeftBoundary(toks, k) == k = 1 \/ toks[k - 1].kind = "ws"
RightBoundary(toks, k) == k = Len(toks) \/ toks[k + 1].kind = "ws"

\* the first token from k on that is not whitespace (Len + 1 when there is none)
SkipSpace(toks, k) ==
    Smallest({j \in k..(Len(toks) + 1) : j = Len(toks) + 1 \/ toks[j].kind # "ws"})

\* word i of the chain is expected at token k: the token that ends the match, or 0
RECURSIVE WordsEnd(_, _, _, _)
WordsEnd(ws, i, toks, k) ==
    IF k > Len(toks) \/ ~IsWord(toks, k, ws[i])
      THEN 0
      ELSE IF i = Len(ws)
             THEN (IF RightBoundary(toks, k) THEN k ELSE 0)
             ELSE LET j == SkipSpace(toks, k + 1)
                  IN  IF j = k + 1 THEN 0 ELSE WordsEnd(ws, i + 1, toks, j)

\* \ba\b.*?\bb\b from token k: the lazy .*? stops at the nearest b
GapEnd(a, b, toks, k) ==
    LET ends == {j \in (k + 1)..Len(toks) :
                    IsWord(toks, j, b) /\ LeftBoundary(toks, j) /\ RightBoundary(toks, j)}
    IN  IF IsWord(toks, k, a) /\ RightBoundary(toks, k) /\ ends # {}
          THEN Smallest(ends)
          ELSE 0

\* the token that ends the match of p beginning at token k, or 0
MatchEnd(p, toks, k) ==
    IF ~LeftBoundary(toks, k)
      THEN 0
      ELSE IF p.kind = "words"
             THEN WordsEnd(p.words, 1, toks, k)
             ELSE GapEnd(p.words[1], p.words[2], toks, k)

NoMatch == [k |-> 0, j |-> 0]

\* the next match at or after token from: its first and last token
NextMatch(p, toks, from) ==
    LET S == {k \in from..Len(toks) : MatchEnd(p, toks, k) # 0}
    IN  IF S = {} THEN NoMatch
        ELSE [k |-> Smallest(S), j |-> MatchEnd(p, toks, Smallest(S))]

\* match.start() and match.end()
MatchStart(toks, m) == Offset(toks, m.k)
MatchStop(toks, m) == Offset(toks, m.j) + toks[m.j].len

(***************************************************************************)
(* The context of a match, pdf_miner_fixed.py 336-341.                     *)
(***************************************************************************)
Max(a, b) == IF a >= b THEN a ELSE b
Min(a, b) == IF a <= b THEN a ELSE b

\* n characters of token t: a cut word keeps its name, cut whitespace is spaces
Piece(t, n) ==
    IF n = t.len THEN t
    ELSE IF t.kind = "ws" THEN Space(" ", n) ELSE [t EXCEPT !.len = n]

IsNonEmpty(t) == t.len > 0

\* text[a:b]
Slice(toks, a, b) ==
    LET cut == [i \in 1..Len(toks) |->
                  LET o == Offset(toks, i)
                  IN  Piece(toks[i], Max(0, Min(b, o + toks[i].len) - Max(a, o)))]
    IN  SelectSeq(cut, IsNonEmpty)

\* str.strip()
RECURSIVE LStrip(_)
LStrip(toks) ==
    IF toks # <<>> /\ Head(toks).kind = "ws" THEN LStrip(Tail(toks)) ELSE toks

RECURSIVE RStrip(_)
RStrip(toks) ==
    IF toks # <<>> /\ toks[Len(toks)].kind = "ws"
      THEN RStrip(SubSeq(toks, 1, Len(toks) - 1))
      ELSE toks

StrStrip(toks) == RStrip(LStrip(toks))

\* the number of tokens before the first whitespace
FieldLen(toks) ==
    Smallest({j \in 1..(Len(toks) + 1) : j = Len(toks) + 1 \/ toks[j].kind = "ws"}) - 1

\* str.split(): the maximal runs of characters that are not whitespace
RECURSIVE Split(_)
Split(toks) ==
    IF toks = <<>> THEN <<>>
    ELSE IF Head(toks).kind = "ws" THEN Split(Tail(toks))
    ELSE LET n == FieldLen(toks)
         IN  <<SubSeq(toks, 1, n)>> \o Split(SubSeq(toks, n + 1, Len(toks)))

\* ' '.join(fields)
RECURSIVE Join(_)
Join(fields) ==
    IF fields = <<>> THEN <<>>
    ELSE IF Len(fields) = 1 THEN fields[1]
    ELSE fields[1] \o <<Space(" ", 1)>> \o Join(Tail(fields))

\* start = max(0, match.start() - 300)
ContextStart_Unclipped(toks, m) == 0
ContextStart(toks, m) == Max(0, MatchStart(toks, m) - ContextChars)

\* end = min(len(text), match.end() + 300)
ContextEnd(toks, m) == Min(Length(toks), MatchStop(toks, m) + ContextChars)

\* context = ' '.join(text[start:end].strip().split())
Context(toks, m) ==
    Join(Split(StrStrip(Slice(toks, ContextStart(toks, m), ContextEnd(toks, m)))))

(***************************************************************************)
(* search_keywords_in_text, pdf_miner_fixed.py 326-355 (tool.py 274-303,   *)
(* manual_pdf_analyzer.py 93-116 have the same three loops).  The fields   *)
(* committee, pdf_filename, pdf_date, page and url of a finding copy the   *)
(* arguments of the call; start and stop record match.start() and          *)
(* match.end() for the claims about order and context.                     *)
(***************************************************************************)
Finding(t, p, toks, m) ==
    [priority |-> t.priority,
     keyword_pattern |-> p.re,
     matched_text |-> SubSeq(toks, m.k, m.j),
     context |-> Context(toks, m),
     start |-> MatchStart(toks, m),
     stop |-> MatchStop(toks, m)]

\* the pattern of the middle loop: priority_data['terms'] is a list
TermAt_Reversed(t, i) == t.terms[Len(t.terms) + 1 - i]
TermAt(t, i) == t.terms[i]

\* matches.append(...)
AppendMatch_Dedup(ms, f) ==
    IF \E i \in 1..Len(ms) : ms[i].start = f.start /\ ms[i].stop = f.stop
      THEN ms
      ELSE Append(ms, f)
AppendMatch(ms, f) == Append(ms, f)

ClassifyInit ==
    /\ keywords \in {Catalog, BrokenCatalog}
    /\ stext \in Texts
    /\ spc = "tier"
    /\ tier = 1
    /\ term = 1
    /\ pos = 1
    /\ matches = <<>>
    /\ first = <<>>
    /\ invocation = 1

ClassifyIdle ==
    /\ keywords = Catalog
    /\ stext = <<>>
    /\ spc = "idle"
    /\ tier = 1
    /\ term = 1
    /\ pos = 1
    /\ matches = <<>>
    /\ first = <<>>
    /\ invocation = 0

\* `for priority, priority_data in self.keywords.items()': the next tier
NextTier ==
    /\ spc = "tier"
    /\ tier <= Len(keywords)
    /\ spc' = "term"
    /\ term' = 1
    /\ UNCHANGED <<keywords, stext, tier, pos, matches, first, invocation>>

\* the tiers are exhausted: `return matches'
ReturnMatches ==
    /\ spc = "tier"
    /\ tier > Len(keywords)
    /\ spc' = "done"
    /\ UNCHANGED <<keywords, stext, tier, term, pos, matches, first, invocation>>

\* `for pattern in priority_data['terms']' and the call re.finditer(pattern, ...)
Finditer ==
    /\ spc = "term"
    /\ term <= Len(keywords[tier].terms)
    /\ TermAt(keywords[tier], term).kind # "invalid"
    /\ spc' = "match"
    /\ pos' = 1
    /\ UNCHANGED <<keywords, stext, tier, term, matches, first, invocation>>

\* re.finditer compiles the pattern: re.error for one that does not compile;
\* nothing in search_keywords_in_text catches it
RegexError ==
    /\ spc = "term"
    /\ term <= Len(keywords[tier].terms)
    /\ TermAt(keywords[tier], term).kind = "invalid"
    /\ spc' = "raised"
    /\ UNCHANGED <<keywords, stext, tier, term, pos, matches, first, invocation>>

\* the patterns of the tier are exhausted
EndOfTerms ==
    /\ spc = "term"
    /\ term > Len(keywords[tier].terms)
    /\ spc' = "tier"
    /\ tier' = tier + 1
    /\ UNCHANGED <<keywords, stext, term, pos, matches, first, invocation>>

\* the body of `for match in re.finditer(...)'
Match ==
    /\ spc = "match"
    /\ LET p == TermAt(keywords[tier], term)
           m == NextMatch(p, stext, pos)
       IN  /\ m # NoMatch
           /\ matches' = AppendMatch(matches, Finding(keywords[tier], p, stext, m))
           /\ pos' = m.j + 1
    /\ UNCHANGED <<keywords, stext, spc, tier, term, first, invocation>>

\* the iterator is exhausted
EndOfMatches ==
    /\ spc = "match"
    /\ NextMatch(TermAt(keywords[tier], term), stext, pos) = NoMatch
    /\ spc' = "term"
    /\ term' = term + 1
    /\ UNCHANGED <<keywords, stext, tier, pos, matches, first, invocation>>

\* the caller invokes the method again with the same text and the same catalog
SearchAgain ==
    /\ spc = "done"
    /\ invocation = 1
    /\ first' = matches
    /\ invocation' = 2
    /\ spc' = "tier"
    /\ tier' = 1
    /\ term' = 1
    /\ pos' = 1
    /\ matches' = <<>>
    /\ UNCHANGED <<keywords, stext>>

ClassifyNext ==
    \/ NextTier /\ UNCHANGED <<fonly, session, dvars, evars, lvars, rvars, avars>>
    \/ ReturnMatches /\ UNCHANGED <<fonly, session, dvars, evars, lvars, rvars, avars>>
    \/ Finditer /\ UNCHANGED <<fonly, session, dvars, evars, lvars, rvars, avars>>
    \/ RegexError /\ UNCHANGED <<fonly, session, dvars, evars, lvars, rvars, avars>>
    \/ EndOfTerms /\ UNCHANGED <<fonly, session, dvars, evars, lvars, rvars, avars>>
    \/ Match /\ UNCHANGED <<fonly, session, dvars, evars, lvars, rvars, avars>>
    \/ EndOfMatches /\ UNCHANGED <<fonly, session, dvars, evars, lvars, rvars, avars>>
    \/ SearchAgain /\ UNCHANGED <<fonly, session, dvars, evars, lvars, rvars, avars>>


(***************************************************************************)
(* Strings of the listing pages.  A string is a sequence of pieces, cut    *)
(* where the methods used on it look: at every "/", before the extension   *)
(* and before the query.                                                   *)
(***************************************************************************)
Origin == "https://dekalbcounty.org"
OtherOrigin == "https://files.example.org"
Origins == {Origin, OtherOrigin}

MainUrl == <<Origin, "/", "government", "/", "finance", "/">>
ArchiveUrl == <<Origin, "/", "government", "/", "finance", "/", "finance-committee-archive", "/">>
ListingUrls == {MainUrl, ArchiveUrl}

Hrefs ==
    { <<"/", "docs", "/", "minutes-01-05-2024", ".pdf">>,
      <<"agenda", ".PDF">>,
      <<OtherOrigin, "/", "files", "/", "agenda", ".pdf">>,
      <<"/", "docs", "/", "minutes", ".html">>,
      <<"/", "docs", "/", "agenda", ".pdf", "?v=2">>,
      <<"/", "view", "?file=", "agenda", ".pdf">>,
      <<>> }

LinkTexts == {<<"Minutes">>, <<"January 5, 2024">>}

\* an <a> element: its href attribute (None when it has none) and its text
NoHref == <<"None">>
Anchor(h, t) == [href |-> h, text |-> t]
Anchors == {Anchor(h, t) : h \in Hrefs \cup {NoHref}, t \in LinkTexts}
Pages == UNION {[1..n -> Anchors] : n \in 0..MaxLinks}

\* str.lower(), piece by piece
LowerPiece(c) == IF c = ".PDF" THEN ".pdf" ELSE c
Lower(s) == [i \in 1..Len(s) |-> LowerPiece(s[i])]

\* s.endswith('.pdf')
EndsWithPdf(s) == s # <<>> /\ s[Len(s)] = ".pdf"

\* `if href.lower().endswith('.pdf')'
IsPdfHref_CaseSensitive(h) == EndsWithPdf(h)
IsPdfHref(h) == EndsWithPdf(Lower(h))

IsQuery(c) == c \in {"?v=2", "?file="}

\* the index of the last "/" of s, or 0
LastSlash(s) ==
    LET S == {i \in 1..Len(s) : s[i] = "/"}
    IN  IF S = {} THEN 0 ELSE CHOOSE i \in S : \A j \in S : j <= i

\* urllib.parse.urljoin(base, href): an absolute URL stands for itself, a path
\* that begins with "/" replaces the path of the base, any other reference
\* replaces what follows the last "/" of the base
UrlJoin(base, h) ==
    IF h = <<>> THEN base
    ELSE IF h[1] \in Origins THEN h
    ELSE IF h[1] = "/" THEN <<base[1]>> \o h
    ELSE SubSeq(base, 1, LastSlash(base)) \o h

\* urlparse(u).path: what follows the origin, up to the query
UrlPath(u) ==
    LET Q == {i \in 1..Len(u) : IsQuery(u[i])}
        stop == IF Q = {} THEN Len(u) ELSE (CHOOSE i \in Q : \A j \in Q : i <= j) - 1
    IN  SubSeq(u, 2, stop)

\* os.path.basename(p): what follows the last "/"
Basename(p) == SubSeq(p, LastSlash(p) + 1, Len(p))

\* the date that the pattern of line 249 finds in a piece, "" when it finds none
DateIn(c) ==
    CASE c = "minutes-01-05-2024" -> "01-05-2024"
      [] c = "January 5, 2024" -> "January 5, 2024"
      [] OTHER -> ""

\* re.search(...).group() on link_text + ' ' + href, or 'Unknown'
DateStr(t, h) ==
    LET s == t \o <<" ">> \o h
        D == {i \in 1..Len(s) : DateIn(s[i]) # ""}
    IN  IF D = {} THEN "Unknown" ELSE DateIn(s[CHOOSE i \in D : \A j \in D : i <= j])

\* the dict appended for one link
DocumentRef(base, a) ==
    [url |-> UrlJoin(base, a.href),
     text |-> a.text,
     date_str |-> DateStr(a.text, a.href),
     filename |-> Basename(UrlPath(UrlJoin(base, a.href)))]

(***************************************************************************)
(* The link loop of extract_pdf_links, pdf_miner_fixed.py 241-266 (tool.py *)
(* 176-198; get_pdf_urls.py 75-85 applies the same test and urljoin).      *)
(***************************************************************************)
LocateInit ==
    /\ lurl \in ListingUrls
    /\ anchors \in Pages
    /\ lidx = 1
    /\ pdf_links = <<>>
    /\ lpc = "links"

LocateIdle ==
    /\ lurl = MainUrl
    /\ anchors = <<>>
    /\ lidx = 1
    /\ pdf_links = <<>>
    /\ lpc = "idle"

\* soup.find_all('a', href=True) passes over an <a> without href
NoHrefLink ==
    /\ lpc = "links"
    /\ lidx <= Len(anchors)
    /\ anchors[lidx].href = NoHref
    /\ lidx' = lidx + 1
    /\ UNCHANGED <<lurl, anchors, pdf_links, lpc>>

\* the body of the loop for a link whose href ends in .pdf
PdfLink ==
    /\ lpc = "links"
    /\ lidx <= Len(anchors)
    /\ anchors[lidx].href # NoHref
    /\ IsPdfHref(anchors[lidx].href)
    /\ pdf_links' = Append(pdf_links, DocumentRef(lurl, anchors[lidx]))
    /\ lidx' = lidx + 1
    /\ UNCHANGED <<lurl, anchors, lpc>>

\* the body of the loop for any other link
OtherLink ==
    /\ lpc = "links"
    /\ lidx <= Len(anchors)
    /\ anchors[lidx].href # NoHref
    /\ ~IsPdfHref(anchors[lidx].href)
    /\ lidx' = lidx + 1
    /\ UNCHANGED <<lurl, anchors, pdf_links, lpc>>

\* `return pdf_links'
ReturnLinks ==
    /\ lpc = "links"
    /\ lidx > Len(anchors)
    /\ lpc' = "returned"
    /\ UNCHANGED <<lurl, anchors, lidx, pdf_links>>

LocateNext ==
    \/ NoHrefLink /\ UNCHANGED <<fonly, session, dvars, evars, cvars, rvars, avars>>
    \/ PdfLink /\ UNCHANGED <<fonly, session, dvars, evars, cvars, rvars, avars>>
    \/ OtherLink /\ UNCHANGED <<fonly, session, dvars, evars, cvars, rvars, avars>>
    \/ ReturnLinks /\ UNCHANGED <<fonly, session, dvars, evars, cvars, rvars, avars>>

(***************************************************************************)
(* The world of a run: the committees, the documents their listing pages   *)
(* may link to, and what the text of each document holds.                  *)
(***************************************************************************)
\* self.committees, in dict order (the first two of the seven)
Committees ==
    << [key |-> "finance_administration", name |-> "Finance & Administration"],
       [key |-> "highway", name |-> "Highway"] >>

Buckets == <<"current", "archive">>

\* document n of a listing page; document 0 has the filename of document 1
\* under another URL
FileName(n) == <<"doc", IF n = 0 THEN 1 ELSE n, ".pdf">>
PdfInfo(k, b, n) == [url |-> <<k, b, n>>, filename |-> FileName(n)]

\* the DocumentRefs a listing page may yield: the first documents of the
\* bucket, or the first document followed by its namesake
Listings(k, b) ==
    {[i \in 1..n |-> PdfInfo(k, b, i)] : n \in 0..MaxDocs}
      \cup {<<PdfInfo(k, b, 1), PdfInfo(k, b, 0)>>}

\* save_path = os.path.join(self.base_dir, committee_key, bucket, pdf_info['filename'])
SavePath(k, b, info) == <<k, b, info.filename>>
RunPaths == {<<Committees[g].key, Buckets[b], FileName(n)>> :
                g \in 1..Len(Committees), b \in 1..Len(Buckets), n \in 1..MaxDocs}

\* the pages that extract_text_from_pdf returns for the bytes served at a URL,
\* each with the keywords search_keywords_in_text finds on it
TextPage(n, hits) == [page_num |-> n, hits |-> hits]
DocPages(u) ==
    CASE u[3] = 0 -> <<TextPage(1, <<"ethics">>), TextPage(2, <<>>)>>
      [] u[3] = 1 -> <<TextPage(1, <<"Hamm">>)>>
      [] u[3] = 2 -> <<TextPage(2, <<"Hamm", "ethics">>)>>
      [] OTHER -> <<>>

\* the pages of the file at a path
PagesOfFile(f) == IF f.data = <<>> THEN <<>> ELSE DocPages(f.data[1][1])

\* the findings of one page: the fields that copy the arguments, and the keyword
Matches(name, info, tp) ==
    [h \in 1..Len(tp.hits) |->
        [committee |-> name, pdf_filename |-> info.filename, url |-> info.url,
         page |-> tp.page_num, matched_text |-> tp.hits[h]]]

\* Python's `try': the statements of extract_pdf_links that lie inside it.
\* tool.py wraps the request and the parsing, pdf_miner_fixed.py the parsing
\* (its request is get_page_with_retry, which returns None and never raises).
InTry_ParseOutside(point) == point # "parse"
InTry(point) == point \in {"request", "parse"}

\* self.results.extend(matches)
Extend_Replace(rs, ms) == ms
Extend(rs, ms) == rs \o ms

\* one attempt of a listing request failed: what the loop over the attempts does
AfterFailure_Reset(a) == IF a = 0 THEN 1 ELSE 0
AfterFailure(a) == a + 1

\* `if self.download_pdf(pdf_info, save_path):' -- whether the body runs
Guard_Ignored(ok) == TRUE
Guard(ok) == ok

\* a document's download failed: where the loop over the documents goes
AfterSkip_Halt(d, n) == n + 1
AfterSkip(d, n) == d + 1

NoReturn == [total_findings |-> 0]
\* the dict returned by run: chart_report only in tool.py
RunReturn(rs) ==
    IF impl = "tool"
      THEN [total_findings |-> Len(rs), excel_report |-> "excel_path",
            chart_report |-> "chart_path", summary_report |-> "summary_path", results |-> rs]
      ELSE [total_findings |-> Len(rs), excel_report |-> "excel_path",
            summary_report |-> "summary_path", results |-> rs]

NoListing == [c \in {"current", "archive"} |-> "pending"]

\* no interrupt was received
NoAbort == [requested |-> FALSE, group |-> 0, attempted |-> 0]

RunInit ==
    /\ impl \in Impls
    /\ files = [p \in RunPaths |-> Absent]
    /\ rpc = "loop"
    /\ group = 0
    /\ bucket = "current"
    /\ rattempt = 0
    /\ current_pdfs = <<>>
    /\ archive_pdfs = <<>>
    /\ doc = 1
    /\ rpages = <<>>
    /\ pg = 1
    /\ results = <<>>
    /\ runret = NoReturn
    /\ listing = NoListing
    /\ attempted = <<>>
    /\ poisoned = {}
    /\ abort = NoAbort

RunIdle ==
    /\ rpc = "idle"
    /\ group = 0
    /\ bucket = "current"
    /\ rattempt = 0
    /\ current_pdfs = <<>>
    /\ archive_pdfs = <<>>
    /\ doc = 1
    /\ rpages = <<>>
    /\ pg = 1
    /\ results = <<>>
    /\ runret = NoReturn
    /\ listing = NoListing
    /\ attempted = <<>>
    /\ poisoned = {}
    /\ abort = NoAbort

\* the list of the bucket being processed, and its document
PdfList == IF bucket = "current" THEN current_pdfs ELSE archive_pdfs
Committee == Committees[group]

(***************************************************************************)
(* run and process_committee, pdf_miner_fixed.py 357-387 and 463-497       *)
(* (tool.py 305-335 and 535-570).  extract_pdf_links is followed through   *)
(* its request and its parsing, download_pdf, extract_text_from_pdf and    *)
(* search_keywords_in_text by what they return.                            *)
(***************************************************************************)
\* `for committee_key in self.committees' has a committee left
MoreCommittees_StopAfterFailure ==
    /\ group < Len(Committees)
    /\ listing["current"] # "failed"
MoreCommittees == group < Len(Committees)

\* the loop of run is at its head: process_committee has returned (or was
\* never called) and the sleep between two committees is over
CommitteeReturned_Early == rpc \in {"loop", "doc"}
CommitteeReturned == rpc = "loop"

\* process_committee(committee_key) begins: extract_pdf_links(main_url)
NextCommittee ==
    /\ CommitteeReturned
    /\ MoreCommittees
    /\ group' = group + 1
    /\ bucket' = "current"
    /\ rattempt' = 0
    /\ current_pdfs' = <<>>
    /\ archive_pdfs' = <<>>
    /\ rpc' = "request"
    /\ listing' = NoListing
    /\ attempted' = <<>>
    /\ UNCHANGED <<impl, files, doc, rpages, pg, results, runret, poisoned>>

\* the loop over the committees ends: the reports are generated
EndOfCommittees ==
    /\ rpc = "loop"
    /\ ~MoreCommittees
    /\ rpc' = "reports"
    /\ UNCHANGED <<impl, files, group, bucket, rattempt, current_pdfs, archive_pdfs, doc,
                   rpages, pg, results, runret, listing, attempted, poisoned>>

\* extract_pdf_links returns links: the caller stores them and goes on with the
\* archive page, or with the documents
ListingReturns(links, outcome) ==
    /\ listing' = [listing EXCEPT ![bucket] = outcome]
    /\ IF bucket = "current"
         THEN /\ current_pdfs' = links
              /\ bucket' = "archive"
              /\ rpc' = "request"
              /\ UNCHANGED archive_pdfs
         ELSE /\ archive_pdfs' = links
              /\ bucket' = "current"
              /\ rpc' = "doc"
              /\ UNCHANGED current_pdfs
    /\ rattempt' = 0
    /\ doc' = 1
    /\ UNCHANGED <<impl, files, group, rpages, pg, results, runret, attempted, poisoned>>

\* an exception leaves extract_pdf_links, process_committee and run
Propagates ==
    /\ rpc' = "crashed"
    /\ UNCHANGED <<impl, files, group, bucket, rattempt, current_pdfs, archive_pdfs, doc,
                   rpages, pg, results, runret, listing, attempted, poisoned>>

\* the listing request is answered with the page (200)
ListingOk ==
    /\ rpc = "request"
    /\ impl = "fixed" => rattempt < DefaultRetries
    /\ rpc' = "parse"
    /\ UNCHANGED <<impl, files, group, bucket, rattempt, current_pdfs, archive_pdfs, doc,
                   rpages, pg, results, runret, listing, attempted, poisoned>>

\* pdf_miner_fixed.py: an attempt of get_page_with_retry fails and the loop goes on
ListingRetry ==
    /\ rpc = "request"
    /\ impl = "fixed"
    /\ rattempt < DefaultRetries
    /\ rattempt' = AfterFailure(rattempt)
    /\ UNCHANGED <<impl, files, rpc, group, bucket, current_pdfs, archive_pdfs, doc,
                   rpages, pg, results, runret, listing, attempted, poisoned>>

\* pdf_miner_fixed.py: the attempts are used up, get_page_with_retry returns None
\* and `if not response' returns the empty list
ListingGiveUp ==
    /\ rpc = "request"
    /\ impl = "fixed"
    /\ rattempt >= DefaultRetries
    /\ ListingReturns(<<>>, "failed")

\* tool.py: session.get or raise_for_status raises
ListingRaises ==
    /\ rpc = "request"
    /\ impl = "tool"
    /\ IF InTry("request") THEN ListingReturns(<<>>, "failed") ELSE Propagates

\* the page is parsed and its links to documents are returned
ParseLinks ==
    /\ rpc = "parse"
    /\ \E links \in Listings(Committee.key, bucket) : ListingReturns(links, "parsed")

\* BeautifulSoup or the link loop raises (malformed page, no body)
ParseRaises ==
    /\ rpc = "parse"
    /\ IF InTry("parse") THEN ListingReturns(<<>>, "unparsed") ELSE Propagates

\* download_pdf returns True: the file was there, or it has been fetched
DownloadTrue ==
    /\ rpc = "doc"
    /\ doc <= Len(PdfList)
    /\ LET info == PdfList[doc]
           path == SavePath(Committee.key, bucket, info)
       IN  /\ files' = IF PathExists(path) THEN files
                       ELSE [files EXCEPT ![path] = File(Body(info.url, 1))]
           /\ attempted' = Append(attempted,
                  [group |-> group, bucket |-> bucket, info |-> info, ok |-> TRUE,
                   bytes |-> files'[path]])
    /\ rpc' = "extract"
    /\ UNCHANGED <<impl, group, bucket, rattempt, current_pdfs, archive_pdfs, doc,
                   rpages, pg, results, runret, listing, poisoned>>

\* download_pdf returns False: the request or the writing failed; the error is
\* logged and the loop takes the next document
DownloadFalse ==
    /\ rpc = "doc"
    /\ doc <= Len(PdfList)
    /\ ~PathExists(SavePath(Committee.key, bucket, PdfList[doc]))
    /\ attempted' = Append(attempted,
           [group |-> group, bucket |-> bucket, info |-> PdfList[doc], ok |-> FALSE,
            bytes |-> Absent])
    /\ IF Guard(FALSE)
         THEN rpc' = "extract" /\ UNCHANGED doc
         ELSE doc' = AfterSkip(doc, Len(PdfList)) /\ UNCHANGED rpc
    /\ UNCHANGED <<impl, files, group, bucket, rattempt, current_pdfs, archive_pdfs,
                   rpages, pg, results, runret, listing, poisoned>>

\* text_pages = self.extract_text_from_pdf(save_path)
ExtractText ==
    /\ rpc = "extract"
    /\ rpages' = PagesOfFile(files[SavePath(Committee.key, bucket, PdfList[doc])])
    /\ pg' = 1
    /\ rpc' = "pages"
    /\ UNCHANGED <<impl, files, group, bucket, rattempt, current_pdfs, archive_pdfs, doc,
                   results, runret, listing, attempted, poisoned>>

\* matches = self.search_keywords_in_text(...); self.results.extend(matches)
SearchPage ==
    /\ rpc = "pages"
    /\ pg <= Len(rpages)
    /\ results' = Extend(results, Matches(Committee.name, PdfList[doc], rpages[pg]))
    /\ pg' = pg + 1
    /\ UNCHANGED <<impl, files, rpc, group, bucket, rattempt, current_pdfs, archive_pdfs, doc,
                   rpages, runret, listing, attempted, poisoned>>

\* the pages of the document are exhausted
NextDocument ==
    /\ rpc = "pages"
    /\ pg > Len(rpages)
    /\ doc' = doc + 1
    /\ rpages' = <<>>
    /\ pg' = 1
    /\ rpc' = "doc"
    /\ UNCHANGED <<impl, files, group, bucket, rattempt, current_pdfs, archive_pdfs,
                   results, runret, listing, attempted, poisoned>>

\* the current documents are exhausted: the archive documents follow
ArchiveDocuments ==
    /\ rpc = "doc"
    /\ doc > Len(PdfList)
    /\ bucket = "current"
    /\ bucket' = "archive"
    /\ doc' = 1
    /\ UNCHANGED <<impl, files, rpc, group, rattempt, current_pdfs, archive_pdfs,
                   rpages, pg, results, runret, listing, attempted, poisoned>>

\* process_committee returns; time.sleep between two committees
CommitteeDone ==
    /\ rpc = "doc"
    /\ doc > Len(PdfList)
    /\ bucket = "archive"
    /\ rpc' = "loop"
    /\ doc' = 1
    /\ poisoned' = IF listing = [c \in {"current", "archive"} |-> "failed"]
                     THEN poisoned \cup {group}
                     ELSE poisoned
    /\ UNCHANGED <<impl, files, group, bucket, rattempt, current_pdfs, archive_pdfs,
                   rpages, pg, results, runret, listing, attempted>>

\* the reports are written and run returns its dict
Reports ==
    /\ rpc = "reports"
    /\ runret' = RunReturn(results)
    /\ rpc' = "returned"
    /\ UNCHANGED <<impl, files, group, bucket, rattempt, current_pdfs, archive_pdfs, doc,
                   rpages, pg, results, listing, attempted, poisoned>>

RunNext ==
    \/ NextCommittee /\ UNCHANGED <<fonly, session, dframe, evars, cvars, lvars, avars>>
    \/ EndOfCommittees /\ UNCHANGED <<fonly, session, dframe, evars, cvars, lvars, avars>>
    \/ ListingOk /\ UNCHANGED <<fonly, session, dframe, evars, cvars, lvars, avars>>
    \/ ListingRetry /\ UNCHANGED <<fonly, session, dframe, evars, cvars, lvars, avars>>
    \/ ListingGiveUp /\ UNCHANGED <<fonly, session, dframe, evars, cvars, lvars, avars>>
    \/ ListingRaises /\ UNCHANGED <<fonly, session, dframe, evars, cvars, lvars, avars>>
    \/ ParseLinks /\ UNCHANGED <<fonly, session, dframe, evars, cvars, lvars, avars>>
    \/ ParseRaises /\ UNCHANGED <<fonly, session, dframe, evars, cvars, lvars, avars>>
    \/ DownloadTrue /\ UNCHANGED <<fonly, session, dframe, evars, cvars, lvars, avars>>
    \/ DownloadFalse /\ UNCHANGED <<fonly, session, dframe, evars, cvars, lvars, avars>>
    \/ ExtractText /\ UNCHANGED <<fonly, session, dframe, evars, cvars, lvars, avars>>
    \/ SearchPage /\ UNCHANGED <<fonly, session, dframe, evars, cvars, lvars, avars>>
    \/ NextDocument /\ UNCHANGED <<fonly, session, dframe, evars, cvars, lvars, avars>>
    \/ ArchiveDocuments /\ UNCHANGED <<fonly, session, dframe, evars, cvars, lvars, avars>>
    \/ CommitteeDone /\ UNCHANGED <<fonly, session, dframe, evars, cvars, lvars, avars>>
    \/ Reports /\ UNCHANGED <<fonly, session, dframe, evars, cvars, lvars, avars>>

(***************************************************************************)
(* An interrupt.  Neither miner installs a signal handler, so SIGINT is    *)
(* Python's KeyboardInterrupt, raised at the statement the main thread is  *)
(* at.  It is a BaseException: the `except Exception' clauses let it pass, *)
(* and only a bare `except:' catches it (pdf_miner_fixed.py 309 around     *)
(* pdfplumber, tool.py 390 around the column widths of the Excel report).  *)
(***************************************************************************)
Running == rpc \in {"loop", "request", "parse", "doc", "extract", "pages", "reports"}

\* the request as the process received it: where the run was
Requested == [requested |-> TRUE, group |-> group, attempted |-> Len(attempted)]

\* what pdf_miner_fixed.py's extract_text_from_pdf returns when pdfplumber is
\* cut short: the pages it had retained, or PyPDF2's reading if it had none
CutShort(tp) == IF tp = <<>> THEN {<<>>} ELSE {SubSeq(tp, 1, n) : n \in 1..Len(tp)}

\* KeyboardInterrupt leaves process_committee, run and main: traceback, no
\* report, no return value
KeyboardInterrupt ==
    /\ Running
    /\ ~abort.requested
    /\ abort' = Requested
    /\ rpc' = "interrupted"
    /\ UNCHANGED <<impl, files, group, bucket, rattempt, current_pdfs, archive_pdfs, doc,
                   rpages, pg, results, runret, listing, attempted, poisoned>>

\* pdf_miner_fixed.py 303-310: the interrupt arrives inside the pdfplumber
\* block, `except: pass' drops it and the run goes on
InterruptInPdfplumber ==
    /\ rpc = "extract"
    /\ impl = "fixed"
    /\ ~abort.requested
    /\ abort' = Requested
    /\ rpages' \in CutShort(PagesOfFile(files[SavePath(Committee.key, bucket, PdfList[doc])]))
    /\ pg' = 1
    /\ rpc' = "pages"
    /\ UNCHANGED <<impl, files, group, bucket, rattempt, current_pdfs, archive_pdfs, doc,
                   results, runret, listing, attempted, poisoned>>

\* tool.py 387-391: the interrupt arrives while generate_excel_report measures
\* a cell, `except: pass' drops it and the reports are finished
InterruptInColumnWidths ==
    /\ rpc = "reports"
    /\ impl = "tool"
    /\ results # <<>>
    /\ ~abort.requested
    /\ abort' = Requested
    /\ runret' = RunReturn(results)
    /\ rpc' = "returned"
    /\ UNCHANGED <<impl, files, group, bucket, rattempt, current_pdfs, archive_pdfs, doc,
                   rpages, pg, results, listing, attempted, poisoned>>

AbortNext ==
    \/ RunNext
    \/ KeyboardInterrupt /\ UNCHANGED <<fonly, session, dframe, evars, cvars, lvars>>
    \/ InterruptInPdfplumber /\ UNCHANGED <<fonly, session, dframe, evars, cvars, lvars>>
    \/ InterruptInColumnWidths /\ UNCHANGED <<fonly, session, dframe, evars, cvars, lvars>>

\* no download_pdf call of the detailed model is running
FrameIdle ==
    /\ dpc = "idle"
    /\ NoFrame
    /\ prev = NoSummary

\* none of the methods modelled after extract_text_from_pdf is running
OthersIdle == ClassifyIdle /\ LocateIdle /\ RunIdle

InitFetch == FetchInit /\ DownloadIdle /\ ExtractIdle /\ OthersIdle
SpecFetch == InitFetch /\ [][FetchNext]_vars

InitDownload == DownloadInit /\ FetchIdle /\ ExtractIdle /\ OthersIdle
SpecDownload == InitDownload /\ [][DownloadNext]_vars

InitExtract == ExtractInit /\ FetchIdle /\ SessionIdle /\ DownloadIdleFiles /\ OthersIdle
SpecExtract == InitExtract /\ [][ExtractNext]_vars

InitClassify == ClassifyInit /\ FetchIdle /\ SessionIdle /\ DownloadIdle /\ ExtractIdle /\ LocateIdle /\ RunIdle
SpecClassify == InitClassify /\ [][ClassifyNext]_vars

InitLocate == LocateInit /\ FetchIdle /\ SessionIdle /\ DownloadIdle /\ ExtractIdle /\ ClassifyIdle /\ RunIdle
SpecLocate == InitLocate /\ [][LocateNext]_vars

InitRun == RunInit /\ FetchIdle /\ SessionIdle /\ FrameIdle /\ ExtractIdle /\ ClassifyIdle /\ LocateIdle
SpecRun == InitRun /\ [][RunNext]_vars
\* run is one sequential thread: it takes its next step whenever it has one
SpecRunFair == SpecRun /\ WF_vars(RunNext)
\* the requests of the miner: a call of get_page_with_retry for a listing
\* page, or the download_pdf calls for the documents (one thread: no
\* download_pdf call begins while get_page_with_retry runs)
InitPolite == InitFetch \/ InitDownload
PoliteNext ==
    \/ fpc # "idle" /\ FetchNext
    \/ fpc = "idle" /\ DownloadNext
SpecPolite == InitPolite /\ [][PoliteNext]_vars

\* a run that may receive an interrupt
SpecAbort == InitRun /\ [][AbortNext]_vars

(***************************************************************************)
(* Reading the history.                                                    *)
(***************************************************************************)
IsRequest(e) == e.ev = "request"
IsOkRequest(e) == IsRequest(e) /\ e.out.kind = "Response" /\ e.out.status = HttpOk
Is403Request(e) == IsRequest(e) /\ e.out.kind = "Response" /\ e.out.status = HttpForbidden
\* a transport error, or a status outside 2xx other than 403
IsOtherFailure(e) ==
    /\ IsRequest(e)
    /\ \/ e.out.kind = "Exception"
       \/ /\ e.out.kind = "Response"
          /\ e.out.status \notin 200..299
          /\ e.out.status # HttpForbidden
IsSleep(e, x, y) == e.ev = "sleep" /\ e.lo = x /\ e.hi = y

Requests == SelectSeq(trace, IsRequest)
RequestStatuses == [i \in DOMAIN Requests |-> Requests[i].out.status]
NoOkRequest == \A i \in DOMAIN trace : ~IsOkRequest(trace[i])
\* j is the first request after position i
NextRequest(i, j) ==
    /\ i < j
    /\ IsRequest(trace[j])
    /\ \A m \in (i + 1)..(j - 1) : ~IsRequest(trace[m])
\* the status of the last response observed (0 when no response was observed)
LastStatus ==
    LET rs == SelectSeq(Requests, LAMBDA e : e.out.kind = "Response")
    IN  IF rs = <<>> THEN 0 ELSE rs[Len(rs)].out.status

FetchFailure(u, s) == [kind |-> "FetchFailure", url |-> u, status |-> s]

(***************************************************************************)
(* C1.  get_page_with_retry returns the response of the first attempt      *)
(* k <= max_retries whose status is 200, having issued exactly k requests, *)
(* and nothing but the return follows that 200: no further request,        *)
(* backoff or cookie clearing.  A response is returned only in that case.  *)
(***************************************************************************)
Thm_C1 ==
    /\ \A i \in DOMAIN trace :
         IsOkRequest(trace[i]) =>
           /\ trace[i].attempt <= max_retries
           /\ Len(SelectSeq(SubSeq(trace, 1, i), IsRequest)) = trace[i].attempt
           /\ \A j \in 1..(i - 1) : ~IsOkRequest(trace[j])
           /\ \A j \in (i + 1)..Len(trace) : trace[j].ev = "return"
           /\ fpc \in {"status", "done"}
           /\ fpc = "done" => /\ ret = trace[i].out
                              /\ Len(trace) = i + 1
    /\ (fpc = "done" /\ ret.kind = "Response") =>
         \E i \in DOMAIN trace : IsOkRequest(trace[i])

\* a 200 on the third attempt, after two failed attempts, is returned
Wit_C1 ==
    /\ fpc = "done"
    /\ ret.kind = "Response"
    /\ ret.status = HttpOk
    /\ Len(Requests) = 3
    /\ RequestStatuses = <<500, 403, 200>>

(***************************************************************************)
(* C2.  Every 403 that is followed by another attempt is followed first by *)
(* a 10-20 s backoff and the clearing of the session cookies, then by a    *)
(* header rotation, and the next request is sent with an empty cookie jar. *)
(* With max_retries = 3 the responses 403, 403, 200 end in success on      *)
(* attempt 3, the cookies having been cleared after attempts 1 and 2.      *)
(***************************************************************************)
Thm_C2 ==
    /\ \A i \in DOMAIN trace :
         Is403Request(trace[i]) =>
         \A j \in DOMAIN trace :
         NextRequest(i, j) =>
           /\ \E s, c, h \in (i + 1)..(j - 1) :
                /\ IsSleep(trace[s], Backoff403Lo, Backoff403Hi)
                /\ trace[c].ev = "clear"
                /\ trace[h].ev = "headers"
                /\ s < h
                /\ c < h
                /\ trace[s].attempt = trace[i].attempt
                /\ trace[c].attempt = trace[i].attempt
                /\ trace[h].attempt = trace[j].attempt
           /\ trace[j].sent = {}
    /\ (fpc = "done" /\ max_retries = 3 /\ RequestStatuses = <<403, 403, 200>>) =>
         /\ ret.kind = "Response"
         /\ ret.status = HttpOk
         /\ Requests[3].attempt = 3
         /\ {e.attempt : e \in {trace[i] : i \in {m \in DOMAIN trace : trace[m].ev = "clear"}}}
              = {1, 2}

\* 403, 403, 200 with three attempts, the first 403 having set a session cookie
Wit_C2 ==
    /\ fpc = "done"
    /\ max_retries = 3
    /\ RequestStatuses = <<403, 403, 200>>
    /\ Requests[1].out.setCookie
    /\ Requests[2].sent = {}
    /\ ret.status = HttpOk

Claim_C4 ==
    /\ \A i, j \in DOMAIN trace :
         (IsOtherFailure(trace[i]) /\ i < j /\ trace[j].ev \in {"request", "return"}) =>
           \E e \in (i + 1)..(j - 1) :
              /\ trace[e].ev = "error"
              /\ trace[e].attempt = trace[i].attempt
    /\ \A i, j \in DOMAIN trace :
         (IsOtherFailure(trace[i]) /\ NextRequest(i, j)) =>
           \E s \in (i + 1)..(j - 1) :
              /\ IsSleep(trace[s], BackoffErrLo, BackoffErrHi)
              /\ trace[s].attempt = trace[i].attempt
    /\ Len(Requests) <= max_retries

(***************************************************************************)
(* Reading a call of download_pdf.                                         *)
(***************************************************************************)
CallRequests == Len(SelectSeq(dtrace, LAMBDA e : e = "request"))
\* a call has ended whose arguments are those of the call that ended before it
Twice ==
    /\ dpc = "done"
    /\ prev.completed
    /\ prev.url = darg.url
    /\ prev.path = darg.path

(***************************************************************************)
(* C5.  Whenever a non-empty file exists at save_path when download_pdf is *)
(* called, the call issues no request (and takes no other step than the    *)
(* check), returns True, and leaves the bytes of the file as they were.    *)
(***************************************************************************)
Thm_C5 ==
    (dpc # "idle" /\ NonEmpty(dbefore)) =>
        /\ files[darg.path] = dbefore
        /\ CallRequests = 0
        /\ dpc \in {"check", "done"}
        /\ dpc = "done" => /\ dret = TRUE
                           /\ dtrace = <<"info">>

\* a cache hit on a file that the call before it downloaded
Wit_C5 ==
    /\ dpc = "done"
    /\ NonEmpty(dbefore)
    /\ dbefore.data = Body(darg.url, MaxChunks)
    /\ prev.path = darg.path
    /\ prev.requests = 1
    /\ dret = TRUE
    /\ files[darg.path] = dbefore

(***************************************************************************)
(* C6 as stated.  Two calls of download_pdf in a row for the same document *)
(* and the same save_path perform exactly one request in total.            *)
(***************************************************************************)
Orig_C6 == Twice => prev.requests + CallRequests = 1

(***************************************************************************)
(* C6 as amended.  When the first of two calls in a row for the same       *)
(* document and save_path returns True, the second call issues no request  *)
(* and returns True, also after a restart of the process: the two calls    *)
(* perform at most one request, and exactly one if no file existed at      *)
(* save_path before the first call.                                        *)
(***************************************************************************)
Thm_C6 ==
    (Twice /\ prev.ret) =>
        /\ CallRequests = 0
        /\ dret = TRUE
        /\ prev.requests + CallRequests <= 1
        /\ ~prev.existed => prev.requests + CallRequests = 1

\* a download, a restart of the process, and the same call again
Wit_C6 ==
    /\ Twice
    /\ impl = "fixed"
    /\ prev.ret
    /\ ~prev.existed
    /\ prev.requests = 1
    /\ userAgent = 0
    /\ CallRequests = 0
    /\ dret = TRUE

(***************************************************************************)
(* Reading an extraction.                                                  *)
(***************************************************************************)
Rank(s) == CHOOSE k \in DOMAIN Strategies : Strategies[k] = s
Retained(s) == IF s \in DOMAIN retained THEN retained[s] ELSE 0
WasInvoked(s) == \E k \in DOMAIN invoked : invoked[k] = s
ReturnedPages == {text_pages[k] : k \in DOMAIN text_pages}

(***************************************************************************)
(* C7.  Every (page number, text) pair in text_pages, whichever strategy   *)
(* produced it, has page number >= 1 and a text whose stripped length is   *)
(* greater than 50; it is the text the strategy in use gave for that page. *)
(* No page whose text is None, empty or of stripped length <= 50 is in it. *)
(***************************************************************************)
Thm_C7 ==
    \A k \in DOMAIN text_pages :
        LET i == text_pages[k][1]
            t == text_pages[k][2]
        IN  /\ i >= 1
            /\ i <= nPages
            /\ t.kind = "text"
            /\ t.core > MinChars
            /\ t = view[i]

\* OCR returned a page, having dropped one of length 52 that strips to 50
Wit_C7 ==
    /\ epc = "done"
    /\ strategy = "OCR"
    /\ text_pages # <<>>
    /\ \E i \in DOMAIN view :
          /\ view[i] = Text(1, MinChars, 1)
          /\ \A k \in DOMAIN text_pages : text_pages[k][1] # i

(***************************************************************************)
(* C8.  The strategies are invoked in the order pdfplumber, PyPDF2, OCR,   *)
(* each at most once, and a strategy is invoked only if every strategy     *)
(* invoked before it retained zero pages: once pdfplumber has retained a   *)
(* page neither PyPDF2 nor OCR is invoked, and OCR is invoked only after   *)
(* pdfplumber and PyPDF2 both ran and retained nothing.                    *)
(***************************************************************************)
Thm_C8 ==
    /\ \A i, j \in DOMAIN invoked :
          i < j => /\ Rank(invoked[i]) < Rank(invoked[j])
                   /\ Retained(invoked[i]) = 0
    /\ WasInvoked("OCR") => /\ WasInvoked("pdfplumber")
                            /\ WasInvoked("PyPDF2")
                            /\ Retained("pdfplumber") = 0
                            /\ Retained("PyPDF2") = 0

\* pdfplumber retained a page of a document and nothing else was invoked
Wit_C8 ==
    /\ epc = "done"
    /\ impl = "tool"
    /\ invoked = <<"pdfplumber">>
    /\ Retained("pdfplumber") >= 1
    /\ Len(text_pages) >= 1
    /\ \E i \in DOMAIN view : view[i] = NoText

(***************************************************************************)
(* C9.  Whenever pdfplumber was tried on a document and ended, by an       *)
(* exception or normally, without a retained page, PyPDF2 is attempted on  *)
(* that document before extract_text_from_pdf returns.  (An exception of   *)
(* pdfplumber after it retained a page is left out: C8 forbids PyPDF2      *)
(* there.)                                                                 *)
(***************************************************************************)
Claim_C9 ==
    (epc = "done" /\ WasInvoked("pdfplumber") /\ Retained("pdfplumber") = 0) =>
        WasInvoked("PyPDF2")

(***************************************************************************)
(* C10.  When a strategy ends in which the extraction of some page raised, *)
(* every other page of the document whose text passes the threshold is in  *)
(* text_pages: the exception of one page does not abort the others.        *)
(***************************************************************************)
Claim_C10 ==
    (epc = "after" /\ \E i \in DOMAIN view : view[i] = PageRaises) =>
        \A i \in DOMAIN view : Retain(view[i]) => <<i, view[i]>> \in ReturnedPages

(***************************************************************************)
(* Reading the findings.                                                   *)
(***************************************************************************)
\* the place of a finding's tier in the catalog, and of its pattern in the tier
TierRank(f) == CHOOSE i \in 1..Len(keywords) : keywords[i].priority = f.priority
TermRank(f) ==
    CHOOSE j \in 1..Len(keywords[TierRank(f)].terms) :
        keywords[TierRank(f)].terms[j].re = f.keyword_pattern

\* f comes before g: by tier, then by pattern, then by where the match starts
Before(f, g) ==
    \/ TierRank(f) < TierRank(g)
    \/ TierRank(f) = TierRank(g) /\ TermRank(f) < TermRank(g)
    \/ TierRank(f) = TierRank(g) /\ TermRank(f) = TermRank(g) /\ f.start < g.start

\* C11: the findings of a page come ordered by tier in catalog order, then by
\* pattern in the order of the tier's list, then by increasing start of the
\* match; a second invocation on the same text and catalog returns the same
\* sequence as the first.
Thm_C11 ==
    /\ \A i \in 1..(Len(matches) - 1) : Before(matches[i], matches[i + 1])
    /\ (invocation = 2 /\ spc = "done") => matches = first

\* a second invocation has returned findings of two tiers
Wit_C11 ==
    /\ invocation = 2
    /\ spc = "done"
    /\ \E i, j \in 1..Len(matches) : matches[i].priority # matches[j].priority
\* the findings that carry pattern p
FindingsOf(p) == {i \in 1..Len(matches) : matches[i].keyword_pattern = p.re}

\* where the text holds the words of chain p (one word, or two joined by
\* whitespace only) between two word boundaries
Occurrences(p) ==
    {k \in 1..Len(stext) :
        /\ IsWord(stext, k, p.words[1])
        /\ LeftBoundary(stext, k)
        /\ IF Len(p.words) = 1
             THEN RightBoundary(stext, k)
             ELSE \E j \in (k + 2)..Len(stext) :
                     /\ IsWord(stext, j, p.words[2])
                     /\ RightBoundary(stext, j)
                     /\ \A i \in (k + 1)..(j - 1) : stext[i].kind = "ws"}

\* no occurrence of the word begins before character n
FirstOf(w, n) == \A k \in 1..Len(stext) : IsWord(stext, k, w) => Offset(stext, k) >= n

\* C12: one finding per pattern and occurrence, never merged: a pattern with n
\* occurrences on the page has n findings, one at each occurrence; a span
\* matched by two patterns has two findings, each with its own pattern.
Thm_C12 ==
    spc = "done" =>
        /\ \A p \in {SteveHamm, Hamm, EthicsTraining} :
              /\ Cardinality(FindingsOf(p)) = Cardinality(Occurrences(p))
              /\ {matches[i].start : i \in FindingsOf(p)} =
                     {Offset(stext, k) : k \in Occurrences(p)}
        /\ \A i \in FindingsOf(EthicsTraining) :
              FirstOf("ethics", matches[i].start) =>
                  \E j \in FindingsOf(EthicsGap) :
                      /\ matches[j].start = matches[i].start
                      /\ matches[j].stop = matches[i].stop
                      /\ matches[j].matched_text = matches[i].matched_text

\* the scan has returned two findings of one span under two patterns
Wit_C12 ==
    /\ spc = "done"
    /\ \E i, j \in 1..Len(matches) :
          /\ matches[i].keyword_pattern # matches[j].keyword_pattern
          /\ matches[i].start = matches[j].start
          /\ matches[i].stop = matches[j].stop
          /\ matches[i].matched_text = matches[j].matched_text
\* the number of word characters of the text between characters a and b
RECURSIVE WordCharsIn(_, _, _, _)
WordCharsIn(toks, k, a, b) ==
    IF k > Len(toks) THEN 0
    ELSE LET o == Offset(toks, k)
             n == Min(b, o + toks[k].len) - Max(a, o)
         IN  (IF toks[k].kind = "word" /\ n > 0 THEN n ELSE 0) + WordCharsIn(toks, k + 1, a, b)

\* every run of whitespace is one space, and none begins or ends the string
SingleSpaced(toks) ==
    /\ \A i \in 1..Len(toks) : toks[i].kind = "ws" => toks[i] = Space(" ", 1)
    /\ \A i \in 1..(Len(toks) - 1) : ~(toks[i].kind = "ws" /\ toks[i + 1].kind = "ws")
    /\ toks # <<>> => (toks[1].kind = "word" /\ toks[Len(toks)].kind = "word")

Claim_C14 == spc # "raised"
\* the links of the page whose href ends, in any letter case, in .pdf
PdfAnchors ==
    {i \in 1..Len(anchors) :
        /\ anchors[i].href \notin {NoHref, <<>>}
        /\ anchors[i].href[Len(anchors[i].href)] \in {".pdf", ".PDF"}}

\* the n-th of them in page order
NthPdfAnchor(n) ==
    CHOOSE i \in PdfAnchors : Cardinality({j \in PdfAnchors : j <= i}) = n

ExampleHref == <<"/", "docs", "/", "minutes-01-05-2024", ".pdf">>

\* C20: a link yields a DocumentRef exactly when its href ends in .pdf in any
\* letter case; the DocumentRefs come one per such link in page order, with
\* the href resolved against the listing URL and the last path segment of
\* that URL as filename (/docs/minutes-01-05-2024.pdf gives the filename
\* minutes-01-05-2024.pdf and the date 01-05-2024).
Thm_C20 ==
    lpc = "returned" =>
        /\ Len(pdf_links) = Cardinality(PdfAnchors)
        /\ \A n \in 1..Len(pdf_links) :
              LET a == anchors[NthPdfAnchor(n)]
                  d == pdf_links[n]
              IN  /\ d.text = a.text
                  /\ d.url = UrlJoin(lurl, a.href)
                  /\ d.url[1] \in Origins
                  /\ d.filename = Basename(UrlPath(d.url))
                  /\ \A i \in 1..Len(d.filename) : d.filename[i] # "/" /\ ~IsQuery(d.filename[i])
                  /\ a.href = ExampleHref =>
                        /\ d.url = <<Origin>> \o ExampleHref
                        /\ d.filename = <<"minutes-01-05-2024", ".pdf">>
                        /\ (a.text = <<"Minutes">> => d.date_str = "01-05-2024")

\* a page with a link to a .PDF and a link to something else has been read
Wit_C20 ==
    /\ lpc = "returned"
    /\ Len(anchors) = 2
    /\ anchors[1].href = <<"/", "docs", "/", "minutes", ".html">>
    /\ anchors[2].href = <<"agenda", ".PDF">>
    /\ Len(pdf_links) = 1
    /\ pdf_links[1].filename = <<"agenda", ".PDF">>
(***************************************************************************)
(* Reading a run.                                                          *)
(***************************************************************************)
\* the findings of self.results that carry the name of a committee
Contribution(name) == SelectSeq(results, LAMBDA f : f.committee = name)

RECURSIVE Flatten(_)
Flatten(ss) == IF ss = <<>> THEN <<>> ELSE Head(ss) \o Flatten(Tail(ss))

\* the findings of one download_pdf call: none when it returned False, else
\* those of every page of the bytes found at the save path
FindingsOfCall(name, c) ==
    IF ~c.ok THEN <<>>
    ELSE LET pages == PagesOfFile(c.bytes)
         IN  Flatten([p \in 1..Len(pages) |-> Matches(name, c.info, pages[p])])

\* the findings of a committee, from its own listing pages and downloads alone
Expected(name, calls) == Flatten([i \in 1..Len(calls) |-> FindingsOfCall(name, calls[i])])

\* C15: failures stay within their committee: when both listing requests of
\* one committee fail it contributes nothing, the run still takes every other
\* committee, and each committee contributes exactly the findings that its own
\* listing pages and downloads give, whatever happened to the others.
Thm_C15 ==
    /\ (rpc = "loop" /\ group >= 1) =>
          /\ Contribution(Committees[group].name) = Expected(Committees[group].name, attempted)
          /\ \A i \in 1..Len(attempted) :
                attempted[i].ok => attempted[i].bytes.data[1][1][1] = Committees[group].key
    /\ rpc \in {"reports", "returned"} => group = Len(Committees)
    /\ \A g \in poisoned : Contribution(Committees[g].name) = <<>>

\* both listing requests of the first committee failed and the second
\* committee has contributed findings of two documents
Wit_C15 ==
    /\ rpc = "loop"
    /\ group = 2
    /\ poisoned = {1}
    /\ \E i, j \in 1..Len(results) :
          /\ results[i].committee = Committees[2].name
          /\ results[j].committee = Committees[2].name
          /\ results[i].url # results[j].url
\* C16: whatever the server answers, run ends: it reaches its return after the
\* loop has taken every committee, and the dict it returns holds the findings
\* accumulated in self.results (none when every request failed).
Thm_C16 ==
    <>(/\ rpc = "returned"
       /\ group = Len(Committees)
       /\ runret.total_findings = Len(results)
       /\ runret.results = results)

\* run has returned after every listing request of every committee failed
Wit_C16 ==
    /\ rpc = "returned"
    /\ poisoned = 1..Len(Committees)
    /\ runret.results = <<>>
\* the documents the listing pages of the committee in hand gave
Listed == current_pdfs \o archive_pdfs

Thm_C18 ==
    [][/\ Len(results') >= Len(results)
       /\ SubSeq(results', 1, Len(results)) = results]_vars

\* the findings of a second document have been appended after those of a first
Wit_C18 ==
    /\ rpc = "pages"
    /\ pg > 1
    /\ \E i, j \in 1..Len(results) : i < j /\ results[i].url # results[j].url
    /\ results[Len(results)].url = PdfList[doc].url
\* an extract_pdf_links call that ended without a page to read links from
Fruitless(c) == listing[c] \in {"failed", "unparsed"}

\* C19: extract_pdf_links never raises to its caller: when the listing request
\* fails or the page cannot be parsed it returns the empty list, and
\* process_committee goes on with the other listing page and with the
\* documents of the other list.
Thm_C19 ==
    /\ rpc # "crashed"
    /\ Fruitless("current") => current_pdfs = <<>>
    /\ Fruitless("archive") => archive_pdfs = <<>>
    /\ (listing["current"] # "pending" /\ listing["archive"] = "pending") =>
          (rpc \in {"request", "parse"} /\ bucket = "archive")
    /\ (rpc = "loop" /\ group >= 1) =>
          /\ listing["current"] # "pending"
          /\ listing["archive"] # "pending"
          /\ Len(attempted) = Len(current_pdfs) + Len(archive_pdfs)

\* the main page could not be parsed, the archive page gave a document, and
\* that document has been downloaded
Wit_C19 ==
    /\ listing["current"] = "unparsed"
    /\ listing["archive"] = "parsed"
    /\ archive_pdfs # <<>>
    /\ \E i \in 1..Len(attempted) : attempted[i].ok /\ attempted[i].bucket = "archive"
(***************************************************************************)
(* C21: the run supports a cooperative abort: once an abort was requested  *)
(* no further request is issued (no later committee is begun, no download  *)
(* of the committee in hand fails at the server), and the run ends only by *)
(* returning the findings gathered up to then.                             *)
(***************************************************************************)
Claim_C21 ==
    abort.requested =>
        /\ group = abort.group
        /\ \A i \in 1..Len(attempted) : i > abort.attempted => attempted[i].ok
        /\ rpc \in {"interrupted", "returned"} => runret = RunReturn(results)

\* the documents of the committee in hand that the two loops have passed
Passed == IF bucket = "current" THEN doc - 1 ELSE Len(current_pdfs) + doc - 1

(***************************************************************************)
(* C22: per document the order is download (or cache hit), extraction,     *)
(* classification, append.  Extraction and classification run only for the *)
(* document whose download_pdf has just returned True; a document whose    *)
(* download_pdf returned False has no finding in self.results; and the     *)
(* loop goes on: every document before the one in hand has been tried.     *)
(***************************************************************************)
Thm_C22 ==
    /\ rpc \in {"extract", "pages"} =>
          /\ attempted # <<>>
          /\ attempted[Len(attempted)].ok
          /\ attempted[Len(attempted)].info = PdfList[doc]
          /\ attempted[Len(attempted)].bucket = bucket
          /\ Len(attempted) = Passed + 1
    /\ rpc = "pages" =>
          rpages = PagesOfFile(files[SavePath(Committee.key, bucket, PdfList[doc])])
    /\ rpc = "doc" => Len(attempted) = Passed
    /\ \A i \in 1..Len(attempted) :
          ~attempted[i].ok =>
              \A k \in 1..Len(results) :
                  ~(results[k].committee = Committee.name /\ results[k].url = attempted[i].info.url)

\* the first document of a page failed to download; the second was fetched,
\* extracted and searched, and its findings are in self.results
Wit_C22 ==
    /\ rpc = "pages"
    /\ pg > 1
    /\ Len(attempted) = 2
    /\ ~attempted[1].ok
    /\ attempted[2].ok
    /\ attempted[1].bucket = attempted[2].bucket
    /\ \E k \in 1..Len(results) : results[k].url = attempted[2].info.url

\* how far the committee in hand is: 0 pending (its listing pages are being
\* fetched), 1 listing-fetched, 2 documents-fetched (the last listed document
\* has been downloaded), 3 classified (the last document has been searched, or
\* skipped), 4 done (process_committee has returned)
Phase ==
    CASE rpc \in {"request", "parse"} -> 0
      [] rpc \in {"doc", "extract", "pages"} /\ Len(attempted) < Len(Listed) -> 1
      [] rpc = "extract" /\ Len(attempted) >= Len(Listed) -> 2
      [] rpc = "pages" /\ Len(attempted) >= Len(Listed) -> IF pg <= Len(rpages) THEN 2 ELSE 3
      [] rpc = "doc" /\ Len(attempted) >= Len(Listed) -> 3
      [] OTHER -> 4

(***************************************************************************)
(* C23: committees are processed one after the other and none goes back.   *)
(* A step that stays in a committee never lowers its phase; the committee  *)
(* changes only to the next one, only when the one before is done, and the *)
(* new one starts at pending; and a download_pdf call ends only when both  *)
(* listing pages of its committee have been fetched.                       *)
(***************************************************************************)
Thm_C23 ==
    [][ /\ group' = group => Phase' >= Phase
        /\ group' # group => (group' = group + 1 /\ Phase = 4 /\ Phase' = 0)
        /\ Len(attempted') > Len(attempted) =>
              (listing["current"] # "pending" /\ listing["archive"] # "pending")
      ]_vars

\* the second committee is at its documents after the first gave findings
Wit_C23 ==
    /\ group = 2
    /\ Phase = 2
    /\ attempted # <<>>
    /\ \E k \in 1..Len(results) : results[k].committee = Committees[1].name

\* the request of the call in hand failed with a transient error: 403, 5xx, or
\* an exception of the transport (timeout, connection reset)
TransientFailure ==
    \/ dresp.kind = "Exception"
    \/ dresp.kind = "Response" /\ dresp.status = HttpForbidden
    \/ dresp.kind = "Response" /\ dresp.status >= 500

(***************************************************************************)
(* C24: a download that fails with a transient error is retried before the *)
(* document is given up: a download_pdf call that returns False after such *)
(* an error has issued more than one request.                              *)
(***************************************************************************)
Claim_C24 == (dpc = "done" /\ ~dret /\ TransientFailure) => CallRequests >= 2

FailedBefore ==
    /\ prev.path = darg.path
    /\ ~prev.existed
    /\ ~(prev.completed /\ prev.ret)

(***************************************************************************)
(* C26: download_pdf reports success for a save_path only if the file      *)
(* there holds the complete body of a successful response: after a call    *)
(* that failed or was interrupted, the next call for that save_path does   *)
(* not return True on the strength of the file the failed call left, that  *)
(* is, without a request of its own.                                       *)
(***************************************************************************)
Claim_C26 == (dpc = "done" /\ FailedBefore) => ~(dret = TRUE /\ CallRequests = 0)

\* the finding is one that the search of the document served at its url gives
FromItsUrl(f) ==
    \E p \in 1..Len(DocPages(f.url)) :
        /\ DocPages(f.url)[p].page_num = f.page
        /\ \E h \in 1..Len(DocPages(f.url)[p].hits) : DocPages(f.url)[p].hits[h] = f.matched_text

(***************************************************************************)
(* C27: every finding's url and pdf_filename name the document whose bytes *)
(* were extracted and searched to produce it, also when two documents of   *)
(* one listing page have different URLs and the same filename.             *)
(***************************************************************************)
Claim_C27 == \A k \in 1..Len(results) : FromItsUrl(results[k])

\* between the requests at i and j lies a backoff wait of x to y seconds
BackoffBetween(i, j, x, y) == \E s \in (i + 1)..(j - 1) : IsSleep(trace[s], x, y)

(***************************************************************************)
(* C28: any two consecutive requests of a get_page_with_retry call are     *)
(* separated by a backoff wait, 10-20 s when the first was answered 403    *)
(* and 5-10 s after any other outcome, whatever the status of the          *)
(* response: no status leads to the next request with the 2-5 s jitter     *)
(* alone.                                                                  *)
(***************************************************************************)
Claim_C28 ==
    \A i, j \in DOMAIN trace :
        (IsRequest(trace[i]) /\ NextRequest(i, j)) =>
            IF Is403Request(trace[i])
              THEN BackoffBetween(i, j, Backoff403Lo, Backoff403Hi)
              ELSE BackoffBetween(i, j, BackoffErrLo, BackoffErrHi)

(***************************************************************************)
(* C29: the pages in text_pages all come from one strategy and their page  *)
(* numbers increase strictly, at every point of a call and so in what it   *)
(* returns: at most one strategy has retained pages, text_pages holds      *)
(* exactly the pages that strategy retained, and no page number occurs     *)
(* twice, also when a strategy raised after it had retained pages.         *)
(***************************************************************************)
Thm_C29 ==
    /\ \A s, t \in DOMAIN retained : (retained[s] > 0 /\ retained[t] > 0) => s = t
    /\ \A s \in DOMAIN retained : retained[s] > 0 => Len(text_pages) = retained[s]
    /\ (\A s \in DOMAIN retained : retained[s] = 0) => text_pages = <<>>
    /\ \A i, j \in 1..Len(text_pages) : i < j => text_pages[i][1] < text_pages[j][1]

\* pdfplumber retained a page and raised on a later one; the call has returned
\* the pages of pdfplumber alone
Wit_C29 ==
    /\ epc = "done"
    /\ impl = "fixed"
    /\ exc
    /\ invoked = <<"pdfplumber">>
    /\ Len(text_pages) >= 1
    /\ \E i \in DOMAIN view : view[i] = PageRaises

\* the string a occurs in the string b.  Tokens are compared as strings: a
\* word by its name and length, whitespace by its characters; a match begins
\* and ends with a whole keyword, which no part of a cut word equals
IsSubstring(a, b) ==
    \E o \in 0..(Len(b) - Len(a)) : \A i \in 1..Len(a) : b[o + i] = a[i]

(***************************************************************************)
(* C30: the context of every finding contains the finding's matched_text,  *)
(* character for character, and is at most len(matched_text) + 600         *)
(* characters long, also when the match spans a line break or another run  *)
(* of whitespace.                                                          *)
(***************************************************************************)
Claim_C30 ==
    \A i \in 1..Len(matches) :
        /\ IsSubstring(matches[i].matched_text, matches[i].context)
        /\ Length(matches[i].context) <= Length(matches[i].matched_text) + 2 * ContextChars

====
